---- MODULE Spec2Model ----
(***************************************************************************)
(* Model of the CAS service of agent-web-portal (packages/cas-stack):      *)
(* the credential store (tokens.ts), the authentication middleware         *)
(* (middleware/auth.ts), the auth service, the content store, the          *)
(* ownership index and the HTTP router (router.ts).                        *)
(*                                                                         *)
(* The specifications share the variables and Init:                        *)
(*   Spec      the HTTP service: one action per route of Router.handle     *)
(*   SpecAuth  the routes under /auth and the clock                        *)
(*   SpecCas   login, ticket creation and the routes under /cas            *)
(*   SpecTok   the credential store driven through its own methods         *)
(*             (createTicket, markTicketWritten, revertTicketWrite,        *)
(*             deleteToken) by request handlers that reserve a write       *)
(*             ticket, write, and complete or revert                       *)
(*   SpecRace  SpecTok restricted to createTicket and markTicketWritten,    *)
(*             the calls' results kept                                     *)
(***************************************************************************)
EXTENDS Integers, Sequences, FiniteSets, TLC

(***************************************************************************)
(* Bounds of the model.                                                    *)
(***************************************************************************)
\* token ids are 1..MaxTokens: at most MaxTokens credentials are ever created
MaxTokens == 3
\* the clock advances at most MaxTicks times
MaxTicks == 1
\* at most MaxUploads uploads are stored
MaxUploads == 2
\* an enumeration asks for at most MaxPages pages
MaxPages == 3
\* a checkOwnership call asks for at most MaxKeyList keys
MaxKeyList == 3
\* a node of the DAG index lists at most MaxChildren children
MaxChildren == 2
MaxCalls == 2

\* Time is counted in seconds: now is Date.now() / 1000, and a row's
\* createdAt and expiresAt are the code's values / 1000 (the code's
\* now + expiresIn in ms is now + expiresIn here).  One clock step:
TickSeconds == 40 * 50

(***************************************************************************)
(* Values.                                                                 *)
(***************************************************************************)
Users == {"u1", "u2"}
\* buildAuthContext gives a ticket's context the user id "" (auth.ts:75)
NoUser == ""
UserIds == Users \cup {NoUser}

\* scope: `usr_${token.userId}` (auth.ts:56, auth.ts:66)
ScopeOf(userId) == "usr_" \o userId
Scopes == {ScopeOf(u) : u \in UserIds}
NoScope == "none"
Me == "@me"

TokenIds == 1..MaxTokens
\* "no token id": the issuerId of a row that has none
NoId == 0
\* an absent expiresAt / createdAt attribute (undefined, falsy in JS)
NoTime == 0
\* an absent key / written attribute
NoKey == "none"
\* request.expiresIn left out
NoExpiresIn == 0

\* Byte contents a request can carry; <<>> is the empty body.
Contents == {<<>>, <<1>>, <<2>>}
\* SHA-256 is modelled as an injective table over Contents: a key names one
\* content, and the digest of a content is never the content itself.
computeHash(content) ==
    CASE content = <<>>  -> "sha256:e3b0"
      [] content = <<1>> -> "sha256:4bf5"
      [] content = <<2>> -> "sha256:dbc1"
\* the keys a caller asserts or asks for
Keys == {computeHash(<<1>>), computeHash(<<2>>)}
ContentTypes == {"text/plain", "image/png"}

TokenPermissions == [read : BOOLEAN, write : BOOLEAN, issueTicket : BOOLEAN]
NoPermissions == [read |-> FALSE, write |-> FALSE, issueTicket |-> FALSE]
ReadOnly == [read |-> TRUE, write |-> FALSE, issueTicket |-> FALSE]
IssueOnly == [read |-> FALSE, write |-> FALSE, issueTicket |-> TRUE]
AllPermissions == [read |-> TRUE, write |-> TRUE, issueTicket |-> TRUE]
\* the permissions a POST /auth/agent-token request asks for
PermissionChoices == {ReadOnly, IssueOnly, AllPermissions}

(***************************************************************************)
(* State.                                                                  *)
(***************************************************************************)
VARIABLES
    registry,   \* portal -> its ToolRegistry: tools, config, built
    handlerLog, \* every tool handler invocation made so far
    rpcCalls,   \* the number of tools/call requests served so far
    lastRpc,    \* the last tools/call request and its reply
    execPc,     \* ServerPortal.executeTool call -> where it stands
    execCas,    \* executeTool call -> its BufferedCasClient
    invoked,    \* executeTool call -> how registry.invoke ended
    hook,       \* the useAwpAuth hook: authState, refs, key storage
    auths,      \* startAuth call -> where it stands, its controller and flow
    keyStorage, \* AwpAuth's KeyStorage: endpoint -> stored key pair
    cached,     \* AwpAuth.cachedEndpoint and cachedKeyPair
    calls,      \* AwpAuth method call -> where it stands and its locals
    cleared,    \* endpoints for which clearKey completed and no save began since
    requests,   \* AwpClient.sendRequest call -> where it stands, attempts made
    flows,      \* startBrowserAuthFlow call -> its closure state and callbacks made
    now,        \* Date.now(), in seconds
    tokens,     \* the tokens table: token id -> row, or NoRow
    nextId,     \* the next fresh token id (generateId never repeats an id)
    ownership,  \* the ownership table: <<scope, key>> -> record, or NoRecord
    blobs,      \* the content store: key -> blob, or NoBlob
    blobsAlone, \* the content store of the run in which only Observer's
                \* scope ever uploaded (same requests, same code)
    uploads,    \* the number of uploads stored so far
    dag,        \* the DAG index: key -> node, or NoNode
    inserted,   \* the <<scope, key>> pairs of the in-memory ownership Map,
                \* in the Map's iteration (insertion) order
    pager,      \* a client that pages through a scope's keys
    usage,      \* history: ticket id -> the write limits its issuance
                \* request asked for and the bytes uploaded with it
    wpc,        \* per write handler: where it is in reserve / write / complete
    wreq,       \* per write handler: the ticket and root key it works on
    revoked,    \* history: the token ids deleteToken was applied to
    consumed    \* history: ticket id -> root key of its completed write

tokVars == <<now, tokens, nextId>>
casVars == <<ownership, blobs, blobsAlone, uploads, dag, inserted, pager,
            usage>>
histVars == <<revoked, consumed>>
mcpVars == <<registry, handlerLog, rpcCalls, lastRpc>>
execVars == <<execPc, execCas, invoked>>
hookVars == <<hook, auths>>
keyVars == <<keyStorage, cached, calls, cleared>>
cliVars == <<mcpVars, execVars, flows, hookVars, keyVars, requests>>
vars == <<cliVars, now, tokens, nextId, ownership, blobs, blobsAlone, uploads, dag,
          inserted, pager, usage,
          wpc, wreq, revoked, consumed>>

(***************************************************************************)
(* Rows of the tokens table.  Every row carries every attribute; an        *)
(* attribute the item does not have holds its No... value.                 *)
(***************************************************************************)
NoRow == [type |-> "none"]

\* an item that holds its key attribute pk only
BareItem ==
    [type |-> "untyped", userId |-> NoUser, permissions |-> NoPermissions,
     scope |-> NoScope, issuerId |-> NoId, ticketType |-> "none",
     key |-> NoKey, createdAt |-> NoTime, expiresAt |-> NoTime,
     written |-> NoKey]

\* TokensDb.createUserToken: expiresAt = now + expiresIn
createUserToken(userId, expiresIn) ==
    [BareItem EXCEPT !.type = "user", !.userId = userId,
                     !.createdAt = now, !.expiresAt = now + expiresIn]

\* createAgentToken(userId, name, permissions, expiresIn)
createAgentToken(userId, permissions, expiresIn) ==
    [BareItem EXCEPT !.type = "agent", !.userId = userId,
                     !.permissions = permissions,
                     !.createdAt = now, !.expiresAt = now + expiresIn]

\* createTicket(scope, issuerId, ticketType, key, expiresIn):
\* defaultExpiry = ticketType === "read" ? 3600 : 300;
\* expiresAt = now + (expiresIn ?? defaultExpiry) * 1000
createTicket(scope, issuerId, ticketType, key, expiresIn) ==
    LET defaultExpiry == IF ticketType = "read" THEN 3600 ELSE 300
        ttl == IF expiresIn = NoExpiresIn THEN defaultExpiry ELSE expiresIn
    IN [BareItem EXCEPT !.type = "ticket", !.scope = scope,
                        !.issuerId = issuerId, !.ticketType = ticketType,
                        !.key = key,
                        !.createdAt = now, !.expiresAt = now + ttl]

\* getToken that returns the item whatever its expiresAt
getTokenAtNoExpiry(table, tokenId, time) ==
    IF tokenId \notin TokenIds THEN NoRow ELSE table[tokenId]

\* TokensDb.getToken: null for a missing item and for an expired one
\* (result.Item.expiresAt && result.Item.expiresAt < Date.now())
getTokenAt(table, tokenId, time) ==
    IF tokenId \notin TokenIds THEN NoRow
    ELSE IF table[tokenId] = NoRow THEN NoRow
    ELSE IF table[tokenId].expiresAt # NoTime /\ table[tokenId].expiresAt < time
         THEN NoRow
    ELSE table[tokenId]

getToken(tokenId) == getTokenAt(tokens, tokenId, now)

\* TokensDb.markTicketWritten: UpdateItem SET written = :rootKey under
\* ConditionExpression attribute_not_exists(written).  UpdateItem adds the
\* item when the key has none, and the condition holds of a missing item.
\* The result is <<new row, returned boolean>>.  (First the method as a
\* PutItem that replaces the item, and the method without its condition.)
markTicketWrittenPut(row, rootKey) ==
    IF row = NoRow \/ row.written = NoKey
    THEN <<[BareItem EXCEPT !.written = rootKey], TRUE>>
    ELSE <<row, FALSE>>

markTicketWrittenUnconditional(row, rootKey) ==
    IF row = NoRow
    THEN <<[BareItem EXCEPT !.written = rootKey], TRUE>>
    ELSE <<[row EXCEPT !.written = rootKey], TRUE>>

markTicketWritten(row, rootKey) ==
    IF row = NoRow
    THEN <<[BareItem EXCEPT !.written = rootKey], TRUE>>
    ELSE IF row.written = NoKey
    THEN <<[row EXCEPT !.written = rootKey], TRUE>>
    ELSE <<row, FALSE>>     \* ConditionalCheckFailedException -> false

\* revertTicketWrite that leaves written as it is
revertTicketWriteKeeps(row) ==
    IF row = NoRow THEN BareItem ELSE row

\* TokensDb.revertTicketWrite: UpdateItem REMOVE written, no condition;
\* UpdateItem adds the (bare) item when the key has none.
revertTicketWrite(row) ==
    IF row = NoRow THEN BareItem ELSE [row EXCEPT !.written = NoKey]

\* TokensDb.deleteToken: DeleteItem
deleteToken(table, tokenId) == [table EXCEPT ![tokenId] = NoRow]

(***************************************************************************)
(* Authentication middleware.                                              *)
(***************************************************************************)
NoAuth == [ok |-> FALSE]

\* buildAuthContext that gives an agent token the rights of a user token
buildAuthContextAgentFull(tokenId, token) ==
    CASE token.type \in {"user", "agent"} ->
           [ok |-> TRUE, tokenId |-> tokenId, userId |-> token.userId,
            scope |-> ScopeOf(token.userId),
            canRead |-> TRUE, canWrite |-> TRUE, canIssueTicket |-> TRUE,
            allowedKey |-> NoKey]
      [] token.type = "ticket" ->
           [ok |-> TRUE, tokenId |-> tokenId, userId |-> NoUser,
            scope |-> token.scope,
            canRead |-> (token.ticketType = "read"),
            canWrite |-> (token.ticketType = "write"),
            canIssueTicket |-> FALSE,
            allowedKey |-> token.key]
      [] OTHER -> NoAuth

\* buildAuthContext whose ticket case derives the scope as the other cases do
buildAuthContextUserScope(tokenId, token) ==
    CASE token.type = "user" ->
           [ok |-> TRUE, tokenId |-> tokenId, userId |-> token.userId,
            scope |-> ScopeOf(token.userId),
            canRead |-> TRUE, canWrite |-> TRUE, canIssueTicket |-> TRUE,
            allowedKey |-> NoKey]
      [] token.type = "agent" ->
           [ok |-> TRUE, tokenId |-> tokenId, userId |-> token.userId,
            scope |-> ScopeOf(token.userId),
            canRead |-> token.permissions.read,
            canWrite |-> token.permissions.write,
            canIssueTicket |-> token.permissions.issueTicket,
            allowedKey |-> NoKey]
      [] token.type = "ticket" ->
           [ok |-> TRUE, tokenId |-> tokenId, userId |-> NoUser,
            scope |-> ScopeOf(token.userId),
            canRead |-> (token.ticketType = "read"),
            canWrite |-> (token.ticketType = "write"),
            canIssueTicket |-> FALSE,
            allowedKey |-> token.key]
      [] OTHER -> NoAuth

\* AuthMiddleware.buildAuthContext: a switch over token.type with no
\* default, so a row of no known type yields no context (undefined)
buildAuthContext(tokenId, token) ==
    CASE token.type = "user" ->
           [ok |-> TRUE, tokenId |-> tokenId, userId |-> token.userId,
            scope |-> ScopeOf(token.userId),
            canRead |-> TRUE, canWrite |-> TRUE, canIssueTicket |-> TRUE,
            allowedKey |-> NoKey]
      [] token.type = "agent" ->
           [ok |-> TRUE, tokenId |-> tokenId, userId |-> token.userId,
            scope |-> ScopeOf(token.userId),
            canRead |-> token.permissions.read,
            canWrite |-> token.permissions.write,
            canIssueTicket |-> token.permissions.issueTicket,
            allowedKey |-> NoKey]
      [] token.type = "ticket" ->
           [ok |-> TRUE, tokenId |-> tokenId, userId |-> NoUser,
            scope |-> token.scope,
            canRead |-> (token.ticketType = "read"),
            canWrite |-> (token.ticketType = "write"),
            canIssueTicket |-> FALSE,
            allowedKey |-> token.key]
      [] OTHER -> NoAuth

\* AuthMiddleware.authenticate: the request presents token id cred
authenticate(cred) ==
    IF getToken(cred) = NoRow THEN NoAuth
    ELSE buildAuthContext(cred, getToken(cred))

\* AuthMiddleware.resolveScope
resolveScope(auth, requestedScope) ==
    IF requestedScope = Me THEN auth.scope ELSE requestedScope

checkScopeAccessAny(auth, requestedScope) == TRUE

\* AuthMiddleware.checkScopeAccess
checkScopeAccess(auth, requestedScope) ==
    auth.scope = (IF requestedScope = Me THEN auth.scope ELSE requestedScope)

\* checkReadAccess without the allowedKey test
checkReadAccessAnyKey(auth, key) == auth.canRead

\* AuthMiddleware.checkReadAccess
checkReadAccess(auth, key) ==
    IF ~auth.canRead THEN FALSE
    ELSE IF auth.allowedKey # NoKey /\ auth.allowedKey # key THEN FALSE
    ELSE TRUE

\* AuthMiddleware.checkWriteAccess
checkWriteAccess(auth) == auth.canWrite

(***************************************************************************)
(* Content store (MemoryCasStorage) and ownership index.                   *)
(***************************************************************************)
AllKeys == {computeHash(c) : c \in Contents}
NoBlob == [content |-> <<>>, contentType |-> "none"]
NoRecord == [createdAt |-> NoTime, createdBy |-> NoId, contentType |-> "none",
             size |-> 0]
OwnershipKeys == Scopes \X AllKeys

\* a put that reports success and stores nothing
putDiscard(store, content, contentType) == store

\* a put that sets the blob whether or not the key is new
putOverwrite(store, content, contentType) ==
    [store EXCEPT ![computeHash(content)] =
        [content |-> content, contentType |-> contentType]]

\* MemoryCasStorage.put: key = computeHash(content); the blob is set only
\* when the key is new
put(store, content, contentType) ==
    LET key == computeHash(content)
    IN IF store[key] = NoBlob
       THEN [store EXCEPT ![key] =
                [content |-> content, contentType |-> contentType]]
       ELSE store

\* putWithKey that stores under the actual key whatever key was asserted
putWithKeyUnverified(store, expectedKey, content, contentType) ==
    [error |-> "none", expected |-> NoKey, actual |-> NoKey,
     key |-> computeHash(content), size |-> Len(content),
     store |-> put(store, content, contentType)]

\* MemoryCasStorage.putWithKey: recompute the hash, refuse a mismatch
putWithKey(store, expectedKey, content, contentType) ==
    LET actualKey == computeHash(content)
    IN IF actualKey # expectedKey
       THEN [error |-> "hash_mismatch", expected |-> expectedKey,
             actual |-> actualKey, key |-> NoKey, size |-> 0, store |-> store]
       ELSE [error |-> "none", expected |-> NoKey, actual |-> NoKey,
             key |-> actualKey, size |-> Len(content),
             store |-> put(store, content, contentType)]

\* MemoryCasStorage.get
get(store, casKey) == store[casKey]

(***************************************************************************)
(* The DAG index.                                                          *)
(***************************************************************************)
Range(seq) == {seq[i] : i \in 1..Len(seq)}

RECURSIVE SeqsUpTo(_, _)
\* the sequences over set of length at most n
SeqsUpTo(set, n) ==
    IF n = 0 THEN {<<>>}
    ELSE LET shorter == SeqsUpTo(set, n - 1)
         IN shorter \cup {Append(q, x) : q \in shorter, x \in set}

\* the children lists a node can carry
ChildLists == SeqsUpTo(AllKeys, MaxChildren)
\* no node under the key
NoNode == [children |-> <<>>, contentType |-> "none", size |-> 0,
           createdAt |-> NoTime]

\* MemoryDagDb.getNode
getNode(index, key) == index[key]

\* MemoryDagDb.putNode: Map.set, which replaces the node under the key
putNode(index, key, children, contentType, size) ==
    [index EXCEPT ![key] = [children |-> children, contentType |-> contentType,
                            size |-> size, createdAt |-> now]]

\* the while loop of collectDagKeys without `if (visited.has(key)) continue`
RECURSIVE collectLoopNoSkip(_, _, _, _)
collectLoopNoSkip(index, queue, visited, iterations) ==
    IF Len(queue) = 0 THEN [keys |-> visited, iterations |-> iterations]
    ELSE LET seen == Append(visited, Head(queue))
             unseen(child) == child \notin Range(seen)
         IN collectLoopNoSkip(index,
                Tail(queue) \o SelectSeq(getNode(index, Head(queue)).children,
                                         unseen),
                seen, iterations + 1)

RECURSIVE collectLoop(_, _, _, _)
\* the while loop of collectDagKeys: queue.shift(), skip a visited key, add
\* the key to visited, push each child that is not in visited; iterations
\* counts the passes through the loop body
collectLoop(index, queue, visited, iterations) ==
    IF Len(queue) = 0 THEN [keys |-> visited, iterations |-> iterations]
    ELSE LET key == Head(queue)
             rest == Tail(queue)
         IN IF key \in Range(visited)
            THEN collectLoop(index, rest, visited, iterations + 1)
            ELSE LET seen == Append(visited, key)
                     node == getNode(index, key)
                     unseen(child) == child \notin Range(seen)
                 IN collectLoop(index,
                                rest \o SelectSeq(node.children, unseen),
                                seen, iterations + 1)

\* MemoryDagDb.collectDagKeys: Array.from(visited), in insertion order
collectDagKeys(index, rootKey) == collectLoop(index, <<rootKey>>, <<>>, 0).keys

\* OwnershipDb.hasOwnership
hasOwnership(table, scope, key) ==
    <<scope, key>> \in OwnershipKeys /\ table[<<scope, key>>] # NoRecord

\* OwnershipDb.addOwnership: PutItem, which replaces the item
addOwnership(table, scope, key, createdBy, contentType, size) ==
    [table EXCEPT ![<<scope, key>>] =
        [createdAt |-> now, createdBy |-> createdBy,
         contentType |-> contentType, size |-> size]]

\* Map.set on the ownership Map: a new key goes to the end of the iteration
\* order, a key that is present keeps its place
mapSet(order, pair) ==
    IF pair \in Range(order) THEN order ELSE Append(order, pair)

\* Map.delete on the ownership Map
mapDelete(order, pair) ==
    LET others(p) == p # pair
    IN SelectSeq(order, others)

\* no quota
NoQuota == 0
\* WritableConfig {quota?, accept?}: accept is the set of accepted content
\* types, empty when the request names none
NoWritable == [quota |-> NoQuota, accept |-> {}]
\* a ticket that was issued without write limits
NoUsage == [limited |-> FALSE, quota |-> NoQuota, accept |-> {}, bytes |-> 0]

\* no enumeration is going on
NoPager == [phase |-> "idle", impl |-> "none", scope |-> NoScope, limit |-> 0,
            cursor |-> NoKey, seen |-> <<>>, stable |-> {}, pages |-> 0]

\* the pager after another request wrote or deleted the record (scope, key)
\* during its enumeration: the record no longer counts as unchanged
touched(p, scope, key) ==
    IF p.phase = "paging" /\ p.scope = scope
    THEN [p EXCEPT !.stable = @ \ {key}]
    ELSE p

\* MemoryOwnershipDb.checkOwnership: each key goes to found or to missing
checkOwnership(table, scope, keys) ==
    LET owned(k) == hasOwnership(table, scope, k)
        notOwned(k) == ~hasOwnership(table, scope, k)
    IN [found |-> SelectSeq(keys, owned), missing |-> SelectSeq(keys, notOwned)]

(***************************************************************************)
(* Replies.  A route's reply is a function of the request and the tables;  *)
(* the handlers below compute it as the router does.                       *)
(***************************************************************************)
Reply(status, error) ==
    [status |-> status, error |-> error, rKey |-> NoKey, rContent |-> <<>>,
     rType |-> "none", rSize |-> 0, missing |-> <<>>, expected |-> NoKey,
     actual |-> NoKey, nodes |-> {}]

\* "the route goes on": what a check that passed returns
Pass == Reply(0, "none")

\* the scope whose view of the store is compared between the two runs
Observer == ScopeOf("u2")

\* the ownership index of the run in which only Observer's scope uploaded
ownershipAlone ==
    [p \in OwnershipKeys |-> IF p[1] = Observer THEN ownership[p] ELSE NoRecord]

\* Router.handleAuth: "Routes requiring auth"
authGate(auth) ==
    IF ~auth.ok THEN Reply(401, "Unauthorized") ELSE Pass

\* Router.handleCas: authenticate, then checkScopeAccess
casGate(auth, requestedScope) ==
    IF ~auth.ok THEN Reply(401, "Unauthorized")
    ELSE IF ~checkScopeAccess(auth, requestedScope)
    THEN Reply(403, "Access denied to this scope")
    ELSE Pass

\* Router.handleResolve
handleResolve(auth, scope, nodes, table) ==
    [Reply(200, "none") EXCEPT
        !.missing = checkOwnership(table, scope, nodes).missing]

\* a handlePutNode that records the claim for the asserted key and ignores
\* the outcome of the hash validation
handlePutNodeClaimAsserted(auth, scope, key, content, contentType, table, store) ==
    IF ~checkWriteAccess(auth)
    THEN <<Reply(403, "Write access denied"), table, store>>
    ELSE LET result == putWithKey(store, key, content, contentType)
         IN <<[Reply(200, "none") EXCEPT
                  !.rKey = key, !.rSize = Len(content), !.rType = contentType],
              addOwnership(table, scope, key, auth.tokenId, contentType,
                           Len(content)),
              result.store>>

\* Router.handlePutNode: <<reply, ownership table, content store>>
handlePutNode(auth, scope, key, content, contentType, table, store) ==
    IF ~checkWriteAccess(auth)
    THEN <<Reply(403, "Write access denied"), table, store>>
    ELSE IF Len(content) = 0
    THEN <<Reply(400, "Empty body"), table, store>>
    ELSE LET result == putWithKey(store, key, content, contentType)
         IN IF result.error # "none"
            THEN <<[Reply(400, "Hash mismatch") EXCEPT
                       !.expected = result.expected,
                       !.actual = result.actual], table, store>>
            ELSE <<[Reply(200, "none") EXCEPT
                       !.rKey = result.key, !.rSize = result.size,
                       !.rType = contentType],
                   addOwnership(table, scope, result.key, auth.tokenId,
                                contentType, result.size),
                   result.store>>

\* Router.handleGetNode
handleGetNode(auth, scope, key, table, store) ==
    IF ~checkReadAccess(auth, key) THEN Reply(403, "Read access denied")
    ELSE IF ~hasOwnership(table, scope, key) THEN Reply(404, "Not found")
    ELSE IF get(store, key) = NoBlob
    THEN Reply(404, "Content not found in storage")
    ELSE [Reply(200, "none") EXCEPT
             !.rKey = key, !.rContent = get(store, key).content,
             !.rType = get(store, key).contentType]

\* Router.handleGetDag: checkReadAccess and hasOwnership for the root, then
\* the manifest: the DAG index entry of every key of collectDagKeys(key)
handleGetDag(auth, scope, key, table) ==
    IF ~checkReadAccess(auth, key) THEN Reply(403, "Read access denied")
    ELSE IF ~hasOwnership(table, scope, key) THEN Reply(404, "Not found")
    ELSE [Reply(200, "none") EXCEPT
             !.rKey = key,
             !.nodes = {[key |-> nodeKey, size |-> getNode(dag, nodeKey).size,
                         contentType |-> getNode(dag, nodeKey).contentType,
                         children |-> getNode(dag, nodeKey).children] :
                        nodeKey \in {k \in Range(collectDagKeys(dag, key)) :
                                        getNode(dag, k) # NoNode}}]

\* Router.handlePostDag
handlePostDag(auth) ==
    IF ~checkWriteAccess(auth) THEN Reply(403, "Write access denied")
    ELSE Reply(501, "Multipart DAG upload not yet implemented")

(***************************************************************************)
(* Router.handleCas, per route: the reply to a request that presents token *)
(* id cred, as a function of the tables.                                   *)
(***************************************************************************)
resolveReply(cred, requestedScope, nodes, table) ==
    LET auth == authenticate(cred)
    IN IF casGate(auth, requestedScope) # Pass THEN casGate(auth, requestedScope)
       ELSE handleResolve(auth, resolveScope(auth, requestedScope), nodes, table)

\* <<reply, ownership table, content store>>
putNodeResult(cred, requestedScope, key, content, contentType, table, store) ==
    LET auth == authenticate(cred)
    IN IF casGate(auth, requestedScope) # Pass
       THEN <<casGate(auth, requestedScope), table, store>>
       ELSE handlePutNode(auth, resolveScope(auth, requestedScope), key,
                          content, contentType, table, store)

getNodeReply(cred, requestedScope, key, table, store) ==
    LET auth == authenticate(cred)
    IN IF casGate(auth, requestedScope) # Pass THEN casGate(auth, requestedScope)
       ELSE handleGetNode(auth, resolveScope(auth, requestedScope), key,
                          table, store)

getDagReply(cred, requestedScope, key, table) ==
    LET auth == authenticate(cred)
    IN IF casGate(auth, requestedScope) # Pass THEN casGate(auth, requestedScope)
       ELSE handleGetDag(auth, resolveScope(auth, requestedScope), key, table)

postDagReply(cred, requestedScope) ==
    LET auth == authenticate(cred)
    IN IF casGate(auth, requestedScope) # Pass THEN casGate(auth, requestedScope)
       ELSE handlePostDag(auth)

(***************************************************************************)
(* Auth service (AuthService) and Router.handleAuth, per route.            *)
(***************************************************************************)
\* TokensDb.verifyTokenOwnership
verifyTokenOwnership(tokenId, userId) ==
    LET token == getToken(tokenId)
    IN IF token = NoRow THEN FALSE
       ELSE IF token.type \in {"user", "agent"} THEN token.userId = userId
       ELSE IF token.type = "ticket"
       THEN LET issuer == getToken(token.issuerId)
            IN IF issuer = NoRow THEN FALSE
               ELSE IF issuer.type \in {"user", "agent"}
               THEN issuer.userId = userId
               ELSE FALSE
       ELSE FALSE

\* POST /auth/agent-token: <<reply, the row created or NoRow>>
\* (AuthService.createAgentToken: expiresIn = request.expiresIn ?? 30 days)
createAgentTokenResult(cred, permissions) ==
    LET auth == authenticate(cred)
    IN IF authGate(auth) # Pass THEN <<authGate(auth), NoRow>>
       ELSE <<Reply(201, "none"),
              createAgentToken(auth.userId, permissions, 30 * 24 * 3600)>>

\* POST /auth/ticket without the canIssueTicket test
createTicketResultAnyIssuer(cred, ticketType, key, expiresIn) ==
    LET auth == authenticate(cred)
    IN IF authGate(auth) # Pass THEN <<authGate(auth), NoRow>>
       ELSE IF ticketType = "read" /\ key = NoKey
       THEN <<Reply(403, "Read tickets require a key"), NoRow>>
       ELSE <<Reply(201, "none"),
              createTicket(auth.scope, auth.tokenId, ticketType, key, expiresIn)>>

\* POST /auth/ticket: <<reply, the row created or NoRow>>
\* (AuthService.createTicket; the router answers 403 to what it throws)
createTicketResult(cred, ticketType, key, expiresIn) ==
    LET auth == authenticate(cred)
    IN IF authGate(auth) # Pass THEN <<authGate(auth), NoRow>>
       ELSE IF ~auth.canIssueTicket
       THEN <<Reply(403, "Not authorized to issue tickets"), NoRow>>
       ELSE IF ticketType = "read" /\ key = NoKey
       THEN <<Reply(403, "Read tickets require a key"), NoRow>>
       ELSE <<Reply(201, "none"),
              createTicket(auth.scope, auth.tokenId, ticketType, key, expiresIn)>>

\* DELETE /auth/agent-token/:id and DELETE /auth/ticket/:id
\* (AuthService.revokeAgentToken / revokeTicket: verifyTokenOwnership, then
\* deleteToken; the router answers 404 to what they throw)
revokeReply(cred, tokenId) ==
    LET auth == authenticate(cred)
    IN IF authGate(auth) # Pass THEN authGate(auth)
       ELSE IF ~verifyTokenOwnership(tokenId, auth.userId)
       THEN Reply(404, "not found or access denied")
       ELSE Reply(200, "none")

(***************************************************************************)
(* Actions: the clock and the HTTP routes.                                 *)
(***************************************************************************)
\* the request handlers that use a write ticket through the credential store
Writers == {"w1", "w2", "w3"}
\* no call in progress
NoCall == [ticket |-> NoId, root |-> NoKey]

\* ---------------------------------------------------------------------
\* The MCP portals: one ToolRegistry per portal (packages/core)
\* ---------------------------------------------------------------------

Portals == {"/basic", "/ecommerce"}
ToolNames == {"greet", "search_products"}

\* JSON values: a kind and the text of the value
Str(text) == [kind |-> "string", text |-> text]
Num(text) == [kind |-> "number", text |-> text]
NumberTexts == {"5", "123"}

\* one member of a z.object schema
Field(kind, optional, default) ==
    [kind |-> kind, optional |-> optional, default |-> default]

GreetInputSchema ==
    [name |-> Field("string", FALSE, Str("")),
     language |-> Field("string", TRUE, Str("en"))]
SearchInputSchema ==
    [query |-> Field("string", FALSE, Str("")),
     limit |-> Field("number", TRUE, Num("10"))]

NoTool == [registered |-> FALSE]
ToolDefinition(inputSchema) == [registered |-> TRUE, inputSchema |-> inputSchema]
ToolDefs ==
    [n \in ToolNames |->
        IF n = "greet" THEN ToolDefinition(GreetInputSchema)
        ELSE ToolDefinition(SearchInputSchema)]

\* the arguments a client may send with tools/call
ArgChoices ==
    {[name |-> Str("test")],
     [name |-> Num("123")],
     [query |-> Str("test")],
     [query |-> Str("test"), limit |-> Num("5")],
     [query |-> Str("test"), limit |-> Str("5")],
     [query |-> Str("test"), limit |-> Str("many")]}

\* schema.safeParse(args) of a z.object: every member present with the
\* right kind, or absent and optional; unknown members are stripped and
\* defaults filled in
safeParse(schema, args) ==
    LET ok == \A k \in DOMAIN schema :
                 IF k \in DOMAIN args THEN args[k].kind = schema[k].kind
                 ELSE schema[k].optional
    IN [success |-> ok,
        data |-> IF ok
                 THEN [k \in DOMAIN schema |->
                          IF k \in DOMAIN args THEN args[k] ELSE schema[k].default]
                 ELSE <<>>]

\* JSON.parse of the text of a string value: a number text parses to the
\* number, any other text of the model throws
coerceValue(v) ==
    IF v.kind = "string" /\ v.text \in NumberTexts THEN Num(v.text) ELSE v

coerceStringifiedArgs(args) == [k \in DOMAIN args |-> coerceValue(args[k])]

NoData == <<>>
Outcome(kind, called, args, data) ==
    [kind |-> kind, called |-> called, args |-> args, data |-> data]

\* a registry that looks the tool up in every portal's registry
invokeToolAnyPortal(reg, name, args, validOutput) ==
    LET holders == {q \in Portals : registry[q].tools[name].registered}
    IN IF holders = {} THEN Outcome("ToolNotFoundError", FALSE, args, NoData)
       ELSE LET tool == registry[CHOOSE q \in holders : TRUE].tools[name]
                first == safeParse(tool.inputSchema, args)
            IN IF ~first.success
               THEN Outcome("ToolValidationError", FALSE, args, NoData)
               ELSE Outcome("result", TRUE, args, first.data)

\* a registry that hands the arguments to the handler unvalidated
invokeToolUnvalidated(reg, name, args, validOutput) ==
    IF ~reg.tools[name].registered
    THEN Outcome("ToolNotFoundError", FALSE, args, NoData)
    ELSE Outcome("result", TRUE, args, args)

\* ToolRegistry.invokeTool: the outcome, and whether the handler ran
invokeTool(reg, name, args, validOutput) ==
    LET tool == reg.tools[name]
    IN IF ~tool.registered
       THEN Outcome("ToolNotFoundError", FALSE, args, NoData)
       ELSE LET first == safeParse(tool.inputSchema, args)
                retry == safeParse(tool.inputSchema, coerceStringifiedArgs(args))
                inputResult == IF ~first.success /\ reg.config.coerceXmlClientArgs
                                  /\ retry.success
                               THEN retry ELSE first
            IN IF ~inputResult.success
               THEN Outcome("ToolValidationError", FALSE, args, NoData)
               ELSE IF ~validOutput
                    THEN Outcome("ToolValidationError", TRUE, args, inputResult.data)
                    ELSE Outcome("result", TRUE, args, inputResult.data)

\* ToolRegistry.toMcpToolsList: the names listed
toMcpToolsList(reg) == {n \in ToolNames : reg.tools[n].registered}

\* the JSON-RPC reply of tools/call
rpcReply(outcome) ==
    CASE outcome.kind = "ToolNotFoundError" ->
            [error |-> "Tool not found", isError |-> FALSE, handlerResult |-> FALSE]
      [] outcome.kind = "ToolValidationError" ->
            [error |-> "", isError |-> TRUE, handlerResult |-> FALSE]
      [] OTHER ->
            [error |-> "", isError |-> FALSE, handlerResult |-> TRUE]

toolsCall(portal, name, args, validOutput) ==
    rpcReply(invokeTool(registry[portal], name, args, validOutput))

NoRpc == [method |-> ""]
NoConfig == [coerceXmlClientArgs |-> FALSE]
NewRegistry == [tools |-> [n \in ToolNames |-> NoTool], config |-> NoConfig,
                built |-> FALSE]

McpInit ==
    /\ registry = [p \in Portals |-> NewRegistry]
    /\ handlerLog = {}
    /\ rpcCalls = 0
    /\ lastRpc = NoRpc

\* ---------------------------------------------------------------------
\* ServerPortal.executeTool and its BufferedCasClient (awp-server-core)
\* ---------------------------------------------------------------------

\* the executeTool calls in progress at one time
Executions == {"x1", "x2"}

\* new BufferedCasClient(context, storage): nothing buffered, nothing written
NewBufferedCasClient == [pending |-> {}, committed |-> {}, buffered |-> {}]

\* a write made by the tool handler is buffered
bufferWrite(cas, key) ==
    [cas EXCEPT !.pending = @ \cup {key}, !.buffered = @ \cup {key}]

hasPendingWrites(cas) == cas.pending # {}

\* commit() uploads the buffered writes one after the other
commitOne(cas, key) ==
    [cas EXCEPT !.pending = @ \ {key}, !.committed = @ \cup {key}]

discard(cas) == [cas EXCEPT !.pending = {}]

\* a catch block that flushes the buffer
catchBlockCommits(cas) ==
    [cas EXCEPT !.pending = {}, !.committed = cas.committed \cup cas.pending]

\* the catch block of executeTool
catchBlock(cas) == discard(cas)

ExecInit ==
    /\ execPc = [x \in Executions |-> "idle"]
    /\ execCas = [x \in Executions |-> NewBufferedCasClient]
    /\ invoked = [x \in Executions |-> "no"]

\* ---------------------------------------------------------------------
\* startBrowserAuthFlow (client-browser/src/auth-window.ts)
\* ---------------------------------------------------------------------

\* the flows started on one page; flow f waits for public key PubkeyOf(f)
Flows == {"f1", "f2"}
PubkeyOf(f) == IF f = "f1" THEN "pk1" ELSE "pk2"
MessagePubkeys == {"pk1", "pk2", "pk-other"}

\* a flow before startBrowserAuthFlow is called
NoFlow ==
    [started |-> FALSE, completed |-> FALSE,
     window |-> "none",     \* "blocked" (window.open gave null), "open", "closed"
     listener |-> FALSE,    \* the message listener is registered
     watch |-> FALSE,       \* the setInterval of watchWindowClosed is set
     timer |-> FALSE,       \* the setTimeout(callback, 0) of a blocked window is due
     authorized |-> 0,      \* calls of onAuthorized
     cancelled |-> 0,       \* calls of onCancelled
     cleaned |-> FALSE,     \* cleanup() has been called
     afterCleanup |-> 0]    \* callbacks invoked after cleanup() was called

\* the returned cleanup of watchWindowClosed: clearInterval, or nothing for
\* a blocked window
cleanupWatch(fl) == [fl EXCEPT !.watch = FALSE]

\* the returned cleanup of listenAuthComplete
cleanupListener(fl) == [fl EXCEPT !.listener = FALSE]

called(fl, callback) ==
    [fl EXCEPT ![callback] = @ + 1,
               !.afterCleanup = IF fl.cleaned THEN @ + 1 ELSE @]

\* a listener callback without the completed test
listenerCallbackUnguarded(fl) ==
    called(cleanupWatch([fl EXCEPT !.completed = TRUE]), "authorized")

\* the callback handed to listenAuthComplete
listenerCallback(fl) ==
    IF ~fl.completed
    THEN called(cleanupWatch([fl EXCEPT !.completed = TRUE]), "authorized")
    ELSE fl

\* the callback handed to watchWindowClosed
watchCallback(fl) ==
    IF ~fl.completed
    THEN called(cleanupListener([fl EXCEPT !.completed = TRUE]), "cancelled")
    ELSE fl

\* the cleanup function startBrowserAuthFlow returns
cleanup(fl) ==
    LET done == cleanupWatch(cleanupListener([fl EXCEPT !.completed = TRUE]))
    IN [done EXCEPT !.window = IF @ = "open" THEN "closed" ELSE @,
                    !.cleaned = TRUE]

FlowInit == flows = [f \in Flows |-> NoFlow]

\* ---------------------------------------------------------------------
\* The useAwpAuth hook (client-react/src/hooks/use-awp-auth.ts)
\* ---------------------------------------------------------------------

\* the calls of startAuth made during the life of one hook
Auths == {"a1", "a2"}
NullRef == "none"
NoStoredKey == "none"

\* a call of startAuth that has not been made
NotStarted ==
    [pc |-> "idle",         \* "init", "waiting", "saving", "done"
     aborted |-> FALSE,     \* its AbortController's signal
     completed |-> FALSE,   \* the completed flag of its browser auth flow
     polling |-> FALSE]     \* pollAuthStatus has not settled

\* the hook as first rendered: the mount effect is about to check the storage
NewHook ==
    [status |-> "idle",
     abortControllerRef |-> NullRef,
     cleanupRef |-> NullRef,
     stored |-> NoStoredKey,      \* keyStorage: the key pair saved for endpoint
     mount |-> "scheduled",       \* checkExistingAuth: "scheduled", "loading", "done"
     logout |-> "idle",           \* logout(): "idle", "deleting"
     stopped |-> FALSE,           \* cancelAuth/logout called, startAuth not since
     savedSinceStop |-> FALSE]    \* a key pair was saved while stopped

\* cleanupRef.current?.() and abortControllerRef.current?.abort()
cancelCurrent(h, as) ==
    [a \in Auths |->
        [as[a] EXCEPT !.completed = @ \/ (h.cleanupRef = a),
                      !.aborted = @ \/ (h.abortControllerRef = a)]]

HookInit ==
    /\ hook = NewHook
    /\ auths = [a \in Auths |-> NotStarted]

\* ---------------------------------------------------------------------
\* AwpAuth: the key cache and the key storage (client/src/auth/index.ts)
\* ---------------------------------------------------------------------

Endpoints == {"e1", "e2"}
KeyPairs == {"k1", "k2"}
NoKeyPair == "none"
NoEndpoint == "none"

\* the asynchronous method calls that may be in progress at one time
Signers == {"sign1"}
Clearers == {"clear1"}
Savers == {"save1"}
AuthCalls == Signers \cup Clearers \cup Savers

\* a call that is not in progress
NoAuthCall ==
    [pc |-> "idle", endpoint |-> NoEndpoint,
     keyPair |-> NoKeyPair,      \* the key pair loaded, or the one to save
     afterClear |-> FALSE,       \* sign: began after clearKey(endpoint) completed
     saveSeen |-> FALSE,         \* clearKey: a save for the endpoint ran meanwhile
     result |-> "none"]          \* sign: "signed" or "NO_KEY"

EmptyCache == [endpoint |-> NoEndpoint, keyPair |-> NoKeyPair]

\* getKeyPair: the cache test
cacheHit(cache, endpoint) ==
    cache.endpoint = endpoint /\ cache.keyPair # NoKeyPair

\* a clearKey that empties the cache whatever it holds
clearCacheAlways(cache, endpoint) == EmptyCache

\* clearKey after the delete: the cache is emptied when it is the endpoint's
clearCache(cache, endpoint) ==
    IF cache.endpoint = endpoint THEN EmptyCache ELSE cache

KeyInit ==
    /\ keyStorage = [e \in Endpoints |-> NoKeyPair]
    /\ cached = EmptyCache
    /\ calls = [c \in AuthCalls |-> NoAuthCall]
    /\ cleared = {}

\* ---------------------------------------------------------------------
\* AwpClient.sendRequest (client/src/client.ts)
\* ---------------------------------------------------------------------

\* the sendRequest calls in progress at one time
Requests == {"r1", "r2"}
\* the HTTP statuses a server may answer
Statuses == {200, 401, 500}

\* a call that has not been made
NoRequest ==
    [pc |-> "idle",              \* "fetch", "handleUnauthorized", "retry", "done"
     auth |-> FALSE,             \* this.auth is configured
     attempts |-> 0,             \* calls of doRequest
     statuses |-> <<>>,          \* the status of each response
     shouldRetry |-> "none",     \* handleUnauthorized: "true", "false", "threw"
     outcome |-> "none"]         \* "result" or "error"

\* the test that starts the authorization flow after the first response
startsAuthFlow(status, auth, challenge) ==
    status = 401 /\ auth /\ challenge

\* response.ok
responseOk(status) == status >= 200 /\ status <= 299

\* where a call goes after a retry that loops on 401
afterRetryLoops(status) ==
    IF status = 401 THEN "handleUnauthorized" ELSE "done"

\* where a call goes after the response to the retry: notifyAuthSuccess or
\* notifyAuthFailed, then the common end
afterRetry(status) == "done"

RequestInit == requests = [r \in Requests |-> NoRequest]

CliInit ==
    /\ McpInit
    /\ RequestInit
    /\ ExecInit
    /\ FlowInit
    /\ HookInit
    /\ KeyInit

Init ==
    /\ CliInit
    /\ now = 0
    /\ tokens = [id \in TokenIds |-> NoRow]
    /\ nextId = 1
    /\ ownership = [p \in OwnershipKeys |-> NoRecord]
    /\ blobs = [k \in AllKeys |-> NoBlob]
    /\ blobsAlone = [k \in AllKeys |-> NoBlob]
    /\ uploads = 0
    /\ dag = [k \in AllKeys |-> NoNode]
    /\ inserted = <<>>
    /\ pager = NoPager
    /\ usage = [id \in TokenIds |-> NoUsage]
    /\ wpc = [w \in Writers |-> "idle"]
    /\ wreq = [w \in Writers |-> NoCall]
    /\ revoked = {}
    /\ consumed = [id \in TokenIds |-> NoKey]

\* the clock advances
Tick ==
    /\ now < MaxTicks * TickSeconds
    /\ now' = now + TickSeconds
    /\ UNCHANGED <<cliVars, tokens, nextId, casVars, wpc, wreq, histVars>>

\* POST /auth/login: the identity provider vouches for user u;
\* createUserToken(userId, RefreshToken, ExpiresIn ?? 3600)
Login(u) ==
    /\ nextId <= MaxTokens
    /\ tokens' = [tokens EXCEPT ![nextId] = createUserToken(u, 3600)]
    /\ nextId' = nextId + 1
    /\ UNCHANGED <<cliVars, now, casVars, wpc, wreq, histVars>>

\* a route's step that stores the row it created, if any, under a fresh id
StoreCreated(op, result) ==
    /\ result[2] # NoRow => nextId <= MaxTokens
    /\ tokens' = IF result[2] # NoRow
                 THEN [tokens EXCEPT ![nextId] = result[2]] ELSE tokens
    /\ nextId' = IF result[2] # NoRow THEN nextId + 1 ELSE nextId
    /\ UNCHANGED <<cliVars, now, casVars, wpc, wreq, histVars>>

\* POST /auth/agent-token
CreateAgentToken(cred, permissions) ==
    StoreCreated("createAgentToken", createAgentTokenResult(cred, permissions))

\* POST /auth/ticket
CreateTicket(cred, ticketType, key, expiresIn) ==
    StoreCreated("createTicket", createTicketResult(cred, ticketType, key, expiresIn))

Revoke(op, cred, tokenId) ==
    /\ tokens' = IF revokeReply(cred, tokenId).status = 200
                 THEN deleteToken(tokens, tokenId) ELSE tokens
    /\ revoked' = IF revokeReply(cred, tokenId).status = 200
                  THEN revoked \cup {tokenId} ELSE revoked
    /\ UNCHANGED <<cliVars, now, nextId, casVars, wpc, wreq, consumed>>

\* DELETE /auth/agent-token/:id
RevokeAgentToken(cred, tokenId) == Revoke("revokeAgentToken", cred, tokenId)

\* DELETE /auth/ticket/:id
RevokeTicket(cred, tokenId) == Revoke("revokeTicket", cred, tokenId)

\* a route that reads only
ReadOnlyRoute(op, reply) ==
    /\ reply.status \in {200, 400, 401, 403, 404}
    /\ UNCHANGED <<cliVars, tokVars, casVars, wpc, wreq, histVars>>

\* POST /cas/{scope}/resolve
Resolve(cred, requestedScope, nodes) ==
    ReadOnlyRoute("resolve", resolveReply(cred, requestedScope, nodes, ownership))

\* GET /cas/{scope}/node/:key
GetNode(cred, requestedScope, key) ==
    ReadOnlyRoute("getNode", getNodeReply(cred, requestedScope, key, ownership, blobs))

\* GET /cas/{scope}/dag/:key
GetDag(cred, requestedScope, key) ==
    ReadOnlyRoute("getDag", getDagReply(cred, requestedScope, key, ownership))

\* POST /cas/{scope}/dag
PostDag(cred, requestedScope) ==
    ReadOnlyRoute("postDag", postDagReply(cred, requestedScope))

\* PUT /cas/{scope}/node/:key, in the service and, when the request is one of
\* Observer's scope, in the run in which only that scope uploads
PutNode(cred, requestedScope, key, content, contentType) ==
    LET result == putNodeResult(cred, requestedScope, key, content, contentType,
                                ownership, blobs)
        stored == result[1].status = 200
    IN /\ stored => uploads < MaxUploads
       /\ ownership' = result[2]
       /\ blobs' = result[3]
       /\ blobsAlone' =
            IF stored /\ authenticate(cred).scope = Observer
            THEN putNodeResult(cred, requestedScope, key, content, contentType,
                               ownershipAlone, blobsAlone)[3]
            ELSE blobsAlone
       /\ uploads' = IF stored THEN uploads + 1 ELSE uploads
       /\ inserted' =
            IF stored
            THEN mapSet(inserted, <<authenticate(cred).scope, result[1].rKey>>)
            ELSE inserted
       /\ pager' =
            IF stored
            THEN touched(pager, authenticate(cred).scope, result[1].rKey)
            ELSE pager
       /\ consumed' =
            IF stored /\ getToken(cred).type = "ticket" /\ consumed[cred] = NoKey
            THEN [consumed EXCEPT ![cred] = result[1].rKey]
            ELSE consumed
       /\ usage' =
            IF stored /\ cred \in TokenIds /\ usage[cred].limited
            THEN [usage EXCEPT ![cred].bytes = @ + result[1].rSize]
            ELSE usage
       /\ UNCHANGED <<cliVars, tokVars, dag, wpc, wreq, revoked>>

(***************************************************************************)
(* The HTTP service.                                                       *)
(***************************************************************************)
\* the scopes a request path can name
RequestedScopes == Scopes \cup {Me}
\* the node lists a resolve request can carry
ResolveChoices ==
    {<<k>> : k \in Keys} \cup {<<computeHash(<<1>>), computeHash(<<2>>)>>}
\* the requested lifetimes a POST /auth/ticket request can carry, in seconds
ExpiresInChoices == {NoExpiresIn}
\* the (type, key) pairs a POST /auth/ticket request can carry
TicketChoices ==
    {<<"write", NoKey>>, <<"read", NoKey>>} \cup {<<"read", k>> : k \in Keys}

Next ==
    \/ Tick
    \/ \E u \in Users : Login(u)
    \/ \E cred \in TokenIds, p \in PermissionChoices : CreateAgentToken(cred, p)
    \/ \E cred \in TokenIds, t \in TicketChoices, e \in ExpiresInChoices :
          CreateTicket(cred, t[1], t[2], e)
    \/ \E cred \in TokenIds, id \in TokenIds : RevokeAgentToken(cred, id)
    \/ \E cred \in TokenIds, id \in TokenIds : RevokeTicket(cred, id)
    \/ \E cred \in TokenIds, s \in RequestedScopes, n \in ResolveChoices :
          Resolve(cred, s, n)
    \/ \E cred \in TokenIds, s \in RequestedScopes, k \in Keys,
          c \in Contents, ct \in ContentTypes : PutNode(cred, s, k, c, ct)
    \/ \E cred \in TokenIds, s \in RequestedScopes, k \in Keys : GetNode(cred, s, k)
    \/ \E cred \in TokenIds, s \in RequestedScopes, k \in Keys : GetDag(cred, s, k)
    \/ \E cred \in TokenIds, s \in RequestedScopes : PostDag(cred, s)

Spec == Init /\ [][Next]_vars

\* the routes under /auth, and the clock
\* a lifetime longer than either default, in seconds
LongExpiresIn == 2 * 3600
\* the requested lifetimes a POST /auth/ticket request carries in SpecAuth
\* (CreateTicketSchema: expiresIn: z.number().positive().optional())
AuthExpiresInChoices == {NoExpiresIn, LongExpiresIn}

NextAuth ==
    \/ Tick
    \/ \E u \in Users : Login(u)
    \/ \E cred \in TokenIds, p \in PermissionChoices : CreateAgentToken(cred, p)
    \/ \E cred \in TokenIds, t \in TicketChoices, e \in AuthExpiresInChoices :
          CreateTicket(cred, t[1], t[2], e)
    \/ \E cred \in TokenIds, id \in TokenIds : RevokeAgentToken(cred, id)
    \/ \E cred \in TokenIds, id \in TokenIds : RevokeTicket(cred, id)

SpecAuth == Init /\ [][NextAuth]_vars

\* login, ticket creation and the routes under /cas
NextCas ==
    \/ \E u \in Users : Login(u)
    \/ \E cred \in TokenIds, t \in TicketChoices, e \in ExpiresInChoices :
          CreateTicket(cred, t[1], t[2], e)
    \/ \E cred \in TokenIds, s \in RequestedScopes, n \in ResolveChoices :
          Resolve(cred, s, n)
    \/ \E cred \in TokenIds, s \in RequestedScopes, k \in Keys,
          c \in Contents, ct \in ContentTypes : PutNode(cred, s, k, c, ct)
    \/ \E cred \in TokenIds, s \in RequestedScopes, k \in Keys : GetNode(cred, s, k)
    \/ \E cred \in TokenIds, s \in RequestedScopes, k \in Keys : GetDag(cred, s, k)
    \/ \E cred \in TokenIds, s \in RequestedScopes : PostDag(cred, s)

SpecCas == Init /\ [][NextCas]_vars

(***************************************************************************)
(* The credential store driven by request handlers that use a write        *)
(* ticket: a handler authenticates the ticket, reserves its write-once     *)
(* slot with markTicketWritten, writes, and then completes, or fails and   *)
(* gives the slot back with revertTicketWrite.  Each method of TokensDb is *)
(* one DynamoDB request, hence one atomic step; the handlers interleave    *)
(* between them.                                                           *)
(***************************************************************************)
\* handler w receives a request that presents write ticket t and uploads root
WInvoke(w, t, root) ==
    /\ wpc[w] = "idle"
    /\ authenticate(t).ok
    /\ getToken(t).type = "ticket"
    /\ checkWriteAccess(authenticate(t))
    /\ wpc' = [wpc EXCEPT ![w] = "called"]
    /\ wreq' = [wreq EXCEPT ![w] = [ticket |-> t, root |-> root]]
    /\ UNCHANGED <<cliVars, tokVars, casVars, histVars>>

\* handler w calls markTicketWritten(ticket, root)
WMark(w) ==
    LET t == wreq[w].ticket
        result == markTicketWritten(tokens[t], wreq[w].root)
    IN /\ wpc[w] = "called"
       /\ tokens' = [tokens EXCEPT ![t] = result[1]]
       /\ wpc' = [wpc EXCEPT ![w] = IF result[2] THEN "reserved" ELSE "rejected"]
       /\ UNCHANGED <<cliVars, now, nextId, casVars, wreq, histVars>>

\* the write that handler w reserved completes
WComplete(w) ==
    /\ wpc[w] = "reserved"
    /\ consumed' = [consumed EXCEPT ![wreq[w].ticket] = wreq[w].root]
    /\ wpc' = [wpc EXCEPT ![w] = "idle"]
    /\ wreq' = [wreq EXCEPT ![w] = NoCall]
    /\ UNCHANGED <<cliVars, tokVars, casVars, revoked>>

\* the write that handler w reserved fails to complete
WFail(w) ==
    /\ wpc[w] = "reserved"
    /\ wpc' = [wpc EXCEPT ![w] = "failed"]
    /\ UNCHANGED <<cliVars, tokVars, casVars, wreq, histVars>>

\* handler w, whose write failed, calls revertTicketWrite(ticket)
WRevert(w) ==
    /\ wpc[w] = "failed"
    /\ tokens' = [tokens EXCEPT ![wreq[w].ticket] =
                     revertTicketWrite(tokens[wreq[w].ticket])]
    /\ wpc' = [wpc EXCEPT ![w] = "idle"]
    /\ wreq' = [wreq EXCEPT ![w] = NoCall]
    /\ UNCHANGED <<cliVars, now, nextId, casVars, histVars>>

\* handler w, whose call returned false, answers that the ticket is used up
WReturn(w) ==
    /\ wpc[w] = "rejected"
    /\ wpc' = [wpc EXCEPT ![w] = "idle"]
    /\ wreq' = [wreq EXCEPT ![w] = NoCall]
    /\ UNCHANGED <<cliVars, tokVars, casVars, histVars>>

\* the (type, key) pairs of the tickets the handlers are given
WriteTicketChoices == {<<"write", NoKey>>}

\* the handlers at work in SpecTok
TokWriters == {"w1", "w2"}

NextTok ==
    \/ \E u \in Users : Login(u)
    \/ \E cred \in TokenIds, t \in WriteTicketChoices, e \in ExpiresInChoices :
          CreateTicket(cred, t[1], t[2], e)
    \/ \E cred \in TokenIds, id \in TokenIds : RevokeTicket(cred, id)
    \/ \E w \in TokWriters, t \in TokenIds, root \in Keys : WInvoke(w, t, root)
    \/ \E w \in TokWriters : WMark(w)
    \/ \E w \in TokWriters : WComplete(w)
    \/ \E w \in TokWriters : WFail(w)
    \/ \E w \in TokWriters : WRevert(w)
    \/ \E w \in TokWriters : WReturn(w)

SpecTok == Init /\ [][NextTok]_vars

NextRace ==
    \/ \E u \in Users : Login(u)
    \/ \E cred \in TokenIds, t \in WriteTicketChoices, e \in ExpiresInChoices :
          CreateTicket(cred, t[1], t[2], e)
    \/ \E w \in Writers, t \in TokenIds, root \in Keys : WInvoke(w, t, root)
    \/ \E w \in Writers : WMark(w)

SpecRace == Init /\ [][NextRace]_vars

(***************************************************************************)
(* Properties.                                                             *)
(***************************************************************************)
\* C1: when calls markTicketWritten(T, root) race on a ticket T whose written
\* is unset, in any interleaving exactly one of the calls that have returned
\* has returned true, every other has returned false, and written holds the
\* root passed by the call that returned true.
C1_ExactlyOneMarkSucceeds ==
    \A t \in TokenIds :
       LET returned == {w \in Writers : /\ wreq[w].ticket = t
                                        /\ wpc[w] \in {"reserved", "rejected"}}
       IN returned # {} =>
            \E w \in returned :
               /\ wpc[w] = "reserved"
               /\ tokens[t].written = wreq[w].root
               /\ \A v \in returned \ {w} : wpc[v] = "rejected"

\* two calls with different roots have raced on one ticket and a third has
\* followed: one returned true, two returned false
C1_RaceHappened ==
    \E t \in TokenIds, w1 \in Writers, w2 \in Writers, w3 \in Writers :
       /\ w3 \notin {w1, w2}
       /\ wreq[w1].ticket = t /\ wreq[w2].ticket = t /\ wreq[w3].ticket = t
       /\ wreq[w1].root # wreq[w2].root
       /\ wpc[w1] = "reserved" /\ wpc[w2] = "rejected" /\ wpc[w3] = "rejected"
       /\ tokens[t].written = wreq[w1].root

\* C2: once a write ticket has been consumed by a successful upload, every
\* later PUT node request that presents the ticket is rejected, stores
\* nothing and adds no ownership record.
C2_ConsumedTicketUploadRejected ==
    \A cred \in TokenIds, s \in RequestedScopes, k \in Keys,
       c \in Contents, ct \in ContentTypes :
       (getToken(cred).type = "ticket" /\ consumed[cred] # NoKey) =>
          LET result == putNodeResult(cred, s, k, c, ct, ownership, blobs)
          IN /\ result[1].status \notin {0, 200}
             /\ result[1].error = "AlreadyWritten"
             /\ result[2] = ownership
             /\ result[3] = blobs

\* C3: once a markTicketWritten(T, r) has returned true and the write it
\* reserved has completed, no later markTicketWritten(T, any root) returns
\* true, and written changes only by a revertTicketWrite of a handler whose
\* reserved write failed.
C3_ConsumedStaysConsumed ==
    [][\A w \in Writers :
          /\ (wpc[w] = "called" /\ wpc'[w] = "reserved")
                => consumed[wreq[w].ticket] = NoKey
          /\ (wpc[w] = "called" /\ consumed[wreq[w].ticket] # NoKey)
                => wpc'[w] \in {"called", "rejected"}]_vars

\* C4: after an id has been revoked, getToken(id) returns null and no request
\* that presents the id authenticates, whatever the credential store is
\* asked afterwards.
C4_RevokedStaysRevoked ==
    \A id \in revoked : getToken(id) = NoRow /\ ~authenticate(id).ok

\* C5: a request whose credential is of scope A and that names another scope
\* is denied with 403 on every route under /cas and changes nothing; an
\* upload adds ownership in the credential's scope only; and a key that the
\* credential's scope does not own cannot be read with it.
C5_ScopeIsolation ==
    \A cred \in TokenIds :
       LET auth == authenticate(cred)
       IN auth.ok =>
          /\ \A s \in Scopes \ {auth.scope}, k \in Keys :
                /\ getNodeReply(cred, s, k, ownership, blobs).status = 403
                /\ getDagReply(cred, s, k, ownership).status = 403
                /\ postDagReply(cred, s).status = 403
                /\ \A n \in ResolveChoices :
                      resolveReply(cred, s, n, ownership).status = 403
                /\ \A c \in Contents, ct \in ContentTypes :
                      putNodeResult(cred, s, k, c, ct, ownership, blobs)
                         = <<Reply(403, "Access denied to this scope"),
                             ownership, blobs>>
          /\ \A s \in RequestedScopes, k \in Keys, c \in Contents,
                ct \in ContentTypes, p \in OwnershipKeys :
                p[1] # auth.scope =>
                   putNodeResult(cred, s, k, c, ct, ownership, blobs)[2][p]
                      = ownership[p]
          /\ \A s \in RequestedScopes, k \in Keys :
                ~hasOwnership(ownership, auth.scope, k) =>
                   /\ getNodeReply(cred, s, k, ownership, blobs).status
                         \in {403, 404}
                   /\ getNodeReply(cred, s, k, ownership, blobs).rContent = <<>>
                   /\ getDagReply(cred, s, k, ownership).status \in {403, 404}

\* a key is stored and owned by scope A only, and a credential of scope B
\* that can read is refused A's scope (403) and finds nothing in its own (404)
C5_CrossScopeDenied ==
    \E credB \in TokenIds, k \in Keys, A \in Scopes :
       /\ authenticate(credB).ok
       /\ authenticate(credB).canRead
       /\ authenticate(credB).scope # A
       /\ hasOwnership(ownership, A, k)
       /\ blobs[k] # NoBlob
       /\ ~hasOwnership(ownership, authenticate(credB).scope, k)
       /\ getNodeReply(credB, A, k, ownership, blobs).status = 403
       /\ getNodeReply(credB, Me, k, ownership, blobs).status = 404

\* C6: a request that presents a read ticket minted for key K1 obtains
\* nothing about another key on any route under /cas: no bytes, no metadata
\* and no ownership status.
C6_ReadTicketKeyScoped ==
    \A cred \in TokenIds, s \in RequestedScopes, k \in Keys :
       (/\ getToken(cred).type = "ticket"
        /\ getToken(cred).ticketType = "read"
        /\ k # getToken(cred).key) =>
          /\ getNodeReply(cred, s, k, ownership, blobs).status # 200
          /\ getDagReply(cred, s, k, ownership).status # 200
          /\ \A n \in ResolveChoices :
                (\E i \in 1..Len(n) : n[i] = k) =>
                   resolveReply(cred, s, n, ownership).status # 200

\* C7: a credential created by an issuance request holds no right (read,
\* write, issue ticket) that the credential presented with the request lacks.
C7_PrivilegeOnlyNarrows ==
    \A cred \in TokenIds :
       LET issuer == authenticate(cred)
           narrowed(row) ==
              LET derived == buildAuthContext(nextId, row)
              IN row # NoRow =>
                    /\ derived.canRead => issuer.canRead
                    /\ derived.canWrite => issuer.canWrite
                    /\ derived.canIssueTicket => issuer.canIssueTicket
                    /\ derived.scope = issuer.scope
       IN issuer.ok =>
            /\ \A p \in PermissionChoices :
                  narrowed(createAgentTokenResult(cred, p)[2])
            /\ \A t \in TicketChoices, e \in ExpiresInChoices :
                  narrowed(createTicketResult(cred, t[1], t[2], e)[2])

\* C8: POST /auth/agent-token creates an agent token only when the request
\* presents a user token; presented an agent token or a ticket it is rejected
\* and creates no credential.
C8_AgentTokenNeedsUserToken ==
    \A cred \in TokenIds, p \in PermissionChoices :
       getToken(cred).type # "user" =>
          /\ createAgentTokenResult(cred, p)[1].status # 201
          /\ createAgentTokenResult(cred, p)[2] = NoRow

C10_OtherScopesUnobservable ==
    \A cred \in TokenIds, s \in RequestedScopes, k \in Keys :
       (authenticate(cred).ok /\ authenticate(cred).scope = Observer) =>
          /\ getNodeReply(cred, s, k, ownership, blobs)
                = getNodeReply(cred, s, k, ownershipAlone, blobsAlone)
          /\ getDagReply(cred, s, k, ownership)
                = getDagReply(cred, s, k, ownershipAlone)
          /\ \A n \in ResolveChoices :
                resolveReply(cred, s, n, ownership)
                   = resolveReply(cred, s, n, ownershipAlone)
          /\ \A c \in Contents, ct \in ContentTypes :
                putNodeResult(cred, s, k, c, ct, ownership, blobs)[1]
                   = putNodeResult(cred, s, k, c, ct, ownershipAlone, blobsAlone)[1]

\* C11: whenever a stored credential's expiresAt is earlier than the clock,
\* getToken returns null although the row exists, the credential does not
\* authenticate, and every route that requires authentication answers 401.
C11_ExpiredIsUnauthorized ==
    \A id \in TokenIds :
       (/\ tokens[id] # NoRow
        /\ tokens[id].expiresAt # NoTime
        /\ tokens[id].expiresAt < now) =>
          /\ getToken(id) = NoRow
          /\ ~authenticate(id).ok
          /\ \A p \in PermissionChoices :
                createAgentTokenResult(id, p) = <<Reply(401, "Unauthorized"), NoRow>>
          /\ \A t \in TicketChoices, e \in AuthExpiresInChoices :
                createTicketResult(id, t[1], t[2], e)
                   = <<Reply(401, "Unauthorized"), NoRow>>
          /\ \A other \in TokenIds : revokeReply(id, other).status = 401
          /\ \A s \in RequestedScopes, k \in Keys :
                /\ getNodeReply(id, s, k, ownership, blobs).status = 401
                /\ getDagReply(id, s, k, ownership).status = 401
                /\ postDagReply(id, s).status = 401
                /\ \A c \in Contents, ct \in ContentTypes :
                      putNodeResult(id, s, k, c, ct, ownership, blobs)
                         = <<Reply(401, "Unauthorized"), ownership, blobs>>

\* a ticket that an unexpired user issued (so the ticket was stored and
\* valid) has expired while its row is still in the table, and a request
\* presenting it is answered 401
C11_TicketExpiredRowKept ==
    \E id \in TokenIds :
       /\ tokens[id] # NoRow
       /\ tokens[id].type = "ticket"
       /\ tokens[id].createdAt < tokens[id].expiresAt
       /\ tokens[id].expiresAt < now
       /\ authenticate(tokens[id].issuerId).ok
       /\ getToken(id) = NoRow
       /\ getNodeReply(id, Me, computeHash(<<1>>), ownership, blobs).status = 401

\* the policy ceiling of a ticket's lifetime, in seconds: one hour for read
\* tickets, five minutes for write tickets
TicketCeiling(ticketType) == IF ticketType = "read" THEN 60 * 60 ELSE 5 * 60

SpecTokFair ==
    /\ Init
    /\ [][NextTok]_vars
    /\ \A w \in TokWriters : WF_vars(WRevert(w))

C14_ReadAccessExact ==
    \A cred \in TokenIds :
       LET ctx == authenticate(cred)
       IN ctx.ok =>
            /\ \A k \in AllKeys :
                  checkReadAccess(ctx, k)
                     <=> (ctx.canRead /\ (ctx.allowedKey = NoKey \/ ctx.allowedKey = k))
            /\ (getToken(cred).type = "ticket" /\ getToken(cred).ticketType = "read")
                  => /\ getToken(cred).key \in Keys
                     /\ checkReadAccess(ctx, getToken(cred).key)
                     /\ \A k \in AllKeys \ {getToken(cred).key} :
                           ~checkReadAccess(ctx, k)

\* a read ticket for a key that its scope owns together with another key:
\* the ticket reads the first and is refused the second, which its issuer reads
C14_TicketReadsItsKeyOnly ==
    \E cred \in TokenIds, k1 \in Keys, k2 \in Keys :
       /\ k1 # k2
       /\ getToken(cred).type = "ticket"
       /\ getToken(cred).ticketType = "read"
       /\ getToken(cred).key = k1
       /\ getNodeReply(cred, Me, k1, ownership, blobs).status = 200
       /\ getNodeReply(cred, Me, k2, ownership, blobs).status = 403
       /\ getNodeReply(getToken(cred).issuerId, Me, k2, ownership, blobs).status = 200

\* C15: a POST /auth/ticket request is rejected and creates no row whenever
\* the presented credential lacks canIssueTicket or the request asks for a
\* read ticket without a key; so no stored ticket was issued by a ticket and
\* every stored read ticket has a key.
C15_TicketIssuanceGuarded ==
    /\ \A cred \in TokenIds, t \in TicketChoices, e \in AuthExpiresInChoices :
          LET auth == authenticate(cred)
              result == createTicketResult(cred, t[1], t[2], e)
          IN (auth.ok /\ (~auth.canIssueTicket \/ (t[1] = "read" /\ t[2] = NoKey)))
                => /\ result[1].status = 403
                   /\ result[2] = NoRow
    /\ \A id \in TokenIds :
          (tokens[id] # NoRow /\ tokens[id].type = "ticket") =>
             /\ tokens[id].ticketType = "read" => tokens[id].key # NoKey
             /\ tokens[tokens[id].issuerId] # NoRow
                   => tokens[tokens[id].issuerId].type \in {"user", "agent"}

\* a live ticket, an agent that may not issue tickets and a user asking for a
\* read ticket without a key are all refused
C15_IssuanceRefused ==
    \E tkt \in TokenIds, agt \in TokenIds, usr \in TokenIds :
       /\ getToken(tkt).type = "ticket"
       /\ getToken(agt).type = "agent" /\ ~authenticate(agt).canIssueTicket
       /\ getToken(usr).type = "user"
       /\ createTicketResult(tkt, "write", NoKey, NoExpiresIn)[1].status = 403
       /\ createTicketResult(agt, "write", NoKey, NoExpiresIn)[1].status = 403
       /\ createTicketResult(usr, "read", NoKey, NoExpiresIn)[1].status = 403
       /\ createTicketResult(usr, "write", NoKey, NoExpiresIn)[1].status = 201

\* C16: every ticket carries exactly the scope of the credential that issued
\* it: the row a POST /auth/ticket request creates has the scope of the
\* presented credential whatever the request carries, and the context of
\* every stored ticket has the scope of its issuer's context and is refused
\* every other scope.
C16_TicketCarriesIssuerScope ==
    /\ \A cred \in TokenIds, t \in TicketChoices, e \in AuthExpiresInChoices :
          LET row == createTicketResult(cred, t[1], t[2], e)[2]
          IN row # NoRow =>
                /\ row.scope = authenticate(cred).scope
                /\ buildAuthContext(nextId, row).scope = authenticate(cred).scope
    /\ \A id \in TokenIds :
          (/\ tokens[id] # NoRow
           /\ tokens[id].type = "ticket"
           /\ tokens[tokens[id].issuerId] # NoRow) =>
             LET ctx == buildAuthContext(id, tokens[id])
                 issuer == buildAuthContext(tokens[id].issuerId,
                                            tokens[tokens[id].issuerId])
             IN /\ ctx.scope = issuer.scope
                /\ \A s \in Scopes : checkScopeAccess(ctx, s) <=> s = issuer.scope

\* a ticket issued by an agent token is stored: it has the agent's scope, is
\* let into that scope and is refused the scope of the other user
C16_AgentIssuedTicket ==
    \E t \in TokenIds, other \in Users :
       /\ getToken(t).type = "ticket"
       /\ getToken(getToken(t).issuerId).type = "agent"
       /\ authenticate(t).scope = authenticate(getToken(t).issuerId).scope
       /\ ScopeOf(other) # authenticate(t).scope
       /\ postDagReply(t, ScopeOf(other)).status = 403
       /\ postDagReply(t, authenticate(t).scope).status # 403

(***************************************************************************)
(* The credential store called directly: TokensDb.markTicketWritten and    *)
(* TokensDb.revertTicketWrite take a ticket id and are applied here to any *)
(* stored ticket.                                                          *)
(***************************************************************************)
\* TokensDb.markTicketWritten(ticketId, rootKey) on a stored ticket
StoreMarkTicketWritten(t, root) ==
    /\ getToken(t).type = "ticket"
    /\ tokens' = [tokens EXCEPT ![t] = markTicketWritten(tokens[t], root)[1]]
    /\ UNCHANGED <<cliVars, now, nextId, casVars, wpc, wreq, histVars>>

\* TokensDb.revertTicketWrite(ticketId) on a stored ticket
StoreRevertTicketWrite(t) ==
    /\ getToken(t).type = "ticket"
    /\ tokens' = [tokens EXCEPT ![t] = revertTicketWrite(tokens[t])]
    /\ UNCHANGED <<cliVars, now, nextId, casVars, wpc, wreq, histVars>>

NextStore ==
    \/ \E u \in Users : Login(u)
    \/ \E cred \in TokenIds, t \in TicketChoices, e \in ExpiresInChoices :
          CreateTicket(cred, t[1], t[2], e)
    \/ \E t \in TokenIds, root \in Keys : StoreMarkTicketWritten(t, root)
    \/ \E t \in TokenIds : StoreRevertTicketWrite(t)

SpecStore == Init /\ [][NextStore]_vars

\* C17: written is never set on a read ticket, whatever operations were
\* applied: markTicketWritten on a read ticket does not succeed.
C17_ReadTicketNeverWritten ==
    \A t \in TokenIds :
       (/\ tokens[t] # NoRow
        /\ tokens[t].type = "ticket"
        /\ tokens[t].ticketType = "read") =>
          tokens[t].written = NoKey

\* C18 as stated: while a credential is stored, every field other than
\* written keeps its value, and written changes only once, from unset to set.
C18_OnlyWriteOnceAndDeletion ==
    [][\A id \in TokenIds :
          (tokens[id] # NoRow /\ tokens'[id] # NoRow) =>
             /\ [tokens'[id] EXCEPT !.written = NoKey]
                   = [tokens[id] EXCEPT !.written = NoKey]
             /\ tokens'[id].written # tokens[id].written
                   => tokens[id].written = NoKey]_vars

\* C18, amended: while a credential is stored, every field other than written
\* keeps its value; written changes only from unset to a root key
\* (markTicketWritten) or from a root key to unset (revertTicketWrite), never
\* from one root key to another; the row otherwise only disappears (deletion).
C18_FrameOfStoredCredential ==
    [][\A id \in TokenIds :
          (tokens[id] # NoRow /\ tokens'[id] # NoRow) =>
             /\ [tokens'[id] EXCEPT !.written = NoKey]
                   = [tokens[id] EXCEPT !.written = NoKey]
             /\ tokens'[id].written # tokens[id].written
                   => (tokens[id].written = NoKey \/ tokens'[id].written = NoKey)]_vars

\* a stored write ticket has been marked (a second call on it was refused)
\* and is otherwise the row createTicket made
C18_MarkedTicketOtherwiseAsCreated ==
    \E t \in TokenIds, w \in TokWriters :
       /\ tokens[t] # NoRow
       /\ tokens[t].type = "ticket"
       /\ tokens[t].written # NoKey
       /\ wpc[w] = "rejected" /\ wreq[w].ticket = t
       /\ [tokens[t] EXCEPT !.written = NoKey]
             = createTicket(tokens[t].scope, tokens[t].issuerId, "write",
                            NoKey, NoExpiresIn)

\* C19: once an ownership record for (scope, key) exists, its createdAt,
\* createdBy, contentType and size never change, also when the key is
\* uploaded again to the scope.
C19_OwnershipRecordImmutable ==
    [][\A p \in OwnershipKeys :
          ownership[p] # NoRecord => ownership'[p] = ownership[p]]_vars

\* C20: ownership writes are idempotent and commutative: an upload repeated
\* leaves the index as the upload applied once does, and two uploads leave
\* the same index in either order.
C20_OwnershipWritesCommute ==
    \A c1 \in TokenIds, c2 \in TokenIds, k1 \in Keys, k2 \in Keys,
       b1 \in Contents, b2 \in Contents, t1 \in ContentTypes, t2 \in ContentTypes :
       LET first == putNodeResult(c1, Me, k1, b1, t1, ownership, blobs)
           second == putNodeResult(c2, Me, k2, b2, t2, ownership, blobs)
           firstTwice == putNodeResult(c1, Me, k1, b1, t1, first[2], first[3])
           firstSecond == putNodeResult(c2, Me, k2, b2, t2, first[2], first[3])
           secondFirst == putNodeResult(c1, Me, k1, b1, t1, second[2], second[3])
       IN (first[1].status = 200 /\ second[1].status = 200) =>
             /\ firstTwice[2] = first[2]
             /\ firstSecond[2] = secondFirst[2]

(***************************************************************************)
(* Content store and ownership index: uploads, reads, deletion.            *)
(***************************************************************************)
\* C21: an authorized upload of bytes that are already stored under their
\* key succeeds (200), from any scope and whatever content type it declares,
\* and leaves the store as it was: one blob under the key, with the bytes
\* and the content type of the first upload
C21_IdenticalUploadIdempotent ==
    \A cred \in TokenIds, s \in RequestedScopes, k \in Keys, ct \in ContentTypes :
        LET auth == authenticate(cred)
            result == putNodeResult(cred, s, k, blobs[k].content, ct,
                                    ownership, blobs)
        IN (/\ blobs[k] # NoBlob
            /\ casGate(auth, s) = Pass
            /\ checkWriteAccess(auth))
           => /\ result[1].status = 200
              /\ result[1].rKey = k
              /\ result[3] = blobs

\* the same bytes were uploaded to both scopes, under two content types
C21_UploadedTwice ==
    \E k \in Keys :
        /\ blobs[k] # NoBlob
        /\ hasOwnership(ownership, ScopeOf("u1"), k)
        /\ hasOwnership(ownership, ScopeOf("u2"), k)
        /\ ownership[<<ScopeOf("u1"), k>>].contentType
             # ownership[<<ScopeOf("u2"), k>>].contentType

\* the reply to GET node k, sent with credential reader to the scope that
\* credential writer uploaded to, right after writer's PUT of b under
\* computeKey(b): [put |-> reply of the PUT, get |-> reply of the GET]
RoundTrip(writer, s, b, ct, reader, s2) ==
    LET k == computeHash(b)
        result == putNodeResult(writer, s, k, b, ct, ownership, blobs)
    IN [put |-> result[1],
        get |-> getNodeReply(reader, s2, k, result[2], result[3])]

\* writer may upload to s, and reader may read key k in that same scope
RoundTripAuthorized(writer, s, k, reader, s2) ==
    LET w == authenticate(writer)
        r == authenticate(reader)
    IN /\ casGate(w, s) = Pass /\ checkWriteAccess(w)
       /\ casGate(r, s2) = Pass /\ checkReadAccess(r, k)
       /\ resolveScope(r, s2) = resolveScope(w, s)

\* C22 as stated: for every byte sequence b, the empty one included, an
\* authorized put under computeKey(b) succeeds and a get of that key by the
\* uploading scope then returns b
C22_RoundTripEveryBody ==
    \A writer, reader \in TokenIds, s, s2 \in RequestedScopes,
       b \in Contents, ct \in ContentTypes :
        RoundTripAuthorized(writer, s, computeHash(b), reader, s2)
        => LET rt == RoundTrip(writer, s, b, ct, reader, s2)
           IN rt.put.status = 200 /\ rt.get.status = 200 /\ rt.get.rContent = b

\* C22, amended: for every non-empty byte sequence b, an authorized put
\* under computeKey(b) succeeds and a get of that key by the uploading scope
\* then returns exactly b
C22_RoundTripNonEmptyBody ==
    \A writer, reader \in TokenIds, s, s2 \in RequestedScopes,
       b \in Contents \ {<<>>}, ct \in ContentTypes :
        RoundTripAuthorized(writer, s, computeHash(b), reader, s2)
        => LET rt == RoundTrip(writer, s, b, ct, reader, s2)
           IN /\ rt.put.status = 200 /\ rt.put.rKey = computeHash(b)
              /\ rt.get.status = 200 /\ rt.get.rContent = b

\* a write ticket uploaded a body and the user of its scope reads it back
C22_UploadedAndReadBack ==
    \E t, u \in TokenIds, k \in Keys :
        /\ getToken(t).type = "ticket" /\ consumed[t] = k
        /\ getToken(u).type = "user"
        /\ authenticate(u).scope = authenticate(t).scope
        /\ getNodeReply(u, Me, k, ownership, blobs).status = 200
        /\ computeHash(getNodeReply(u, Me, k, ownership, blobs).rContent) = k

\* a removal that drops the key's record in every scope
removeOwnershipEveryScope(table, scope, key) ==
    [p \in OwnershipKeys |-> IF p[2] = key THEN NoRecord ELSE table[p]]

\* OwnershipDb.removeOwnership / MemoryOwnershipDb.deleteOwnership: delete
\* the item whose key is (scope, key)
removeOwnership(table, scope, key) ==
    [table EXCEPT ![<<scope, key>>] = NoRecord]

\* DELETE /cas/{scope}/node/:key: <<reply, ownership table, content store>>;
\* the blob is not deleted
handleDeleteNode(auth, scope, key, table, store) ==
    IF ~auth.canWrite
    THEN <<Reply(403, "Write access denied"), table, store>>
    ELSE IF ~hasOwnership(table, scope, key)
    THEN <<Reply(404, "Not found"), table, store>>
    ELSE <<[Reply(200, "none") EXCEPT !.rKey = key],
           removeOwnership(table, scope, key), store>>

deleteNodeResult(cred, requestedScope, key, table, store) ==
    LET auth == authenticate(cred)
    IN IF casGate(auth, requestedScope) # Pass
       THEN <<casGate(auth, requestedScope), table, store>>
       ELSE handleDeleteNode(auth, resolveScope(auth, requestedScope), key,
                             table, store)

\* DELETE /cas/{scope}/node/:key
DeleteNode(cred, requestedScope, key) ==
    LET result == deleteNodeResult(cred, requestedScope, key, ownership, blobs)
        S == authenticate(cred).scope
        deleted == result[1].status = 200
    IN /\ ownership' = result[2]
       /\ blobs' = result[3]
       /\ inserted' = IF deleted THEN mapDelete(inserted, <<S, key>>) ELSE inserted
       /\ pager' = IF deleted THEN touched(pager, S, key) ELSE pager
       /\ UNCHANGED <<cliVars, tokVars, blobsAlone, uploads, dag, usage, wpc, wreq,
                      histVars>>

\* login, write tickets, uploads, reads and deletions
NextDel ==
    \/ \E u \in Users : Login(u)
    \/ \E cred \in TokenIds : CreateTicket(cred, "write", NoKey, NoExpiresIn)
    \/ \E cred \in TokenIds, s \in RequestedScopes, k \in Keys,
          c \in Contents, ct \in ContentTypes : PutNode(cred, s, k, c, ct)
    \/ \E cred \in TokenIds, s \in RequestedScopes, k \in Keys : GetNode(cred, s, k)
    \/ \E cred \in TokenIds, s \in RequestedScopes, k \in Keys :
          DeleteNode(cred, s, k)

SpecDel == Init /\ [][NextDel]_vars

\* C23: a DELETE of node k sent to scope S changes at most the ownership
\* record (S, k), which is gone when the reply is 200; the stored bytes of
\* every key and every other ownership record are as before, and every
\* credential of another scope gets the same reply to GET node k as before
C23_DeleteRemovesOnlyOwnClaim ==
    \A cred \in TokenIds, s \in RequestedScopes, k \in Keys :
        LET auth == authenticate(cred)
            S == resolveScope(auth, s)
            result == deleteNodeResult(cred, s, k, ownership, blobs)
        IN /\ result[3] = blobs
           /\ result[1].status # 200 => result[2] = ownership
           /\ result[1].status = 200 =>
                /\ ~hasOwnership(result[2], S, k)
                /\ \A p \in OwnershipKeys \ {<<S, k>>} :
                       result[2][p] = ownership[p]
                /\ \A other \in TokenIds, s2 \in RequestedScopes :
                       authenticate(other).ok /\ authenticate(other).scope # S
                       => getNodeReply(other, s2, k, result[2], result[3])
                          = getNodeReply(other, s2, k, ownership, blobs)

\* a ticket's scope uploaded k and deleted it again, while the other scope
\* still owns k and reads its bytes
C23_DeletedFromOneOfTwoOwners ==
    \E t, u \in TokenIds, k \in Keys :
        /\ getToken(t).type = "ticket" /\ consumed[t] = k
        /\ ~hasOwnership(ownership, authenticate(t).scope, k)
        /\ getToken(u).type = "user"
        /\ authenticate(u).scope # authenticate(t).scope
        /\ getNodeReply(u, Me, k, ownership, blobs).status = 200

(***************************************************************************)
(* The DAG index and the DAG manifest.                                     *)
(***************************************************************************)
\* DagDb.putNode, called on the index
DagPutNode(key, children, contentType, size) ==
    /\ dag' = putNode(dag, key, children, contentType, size)
    /\ UNCHANGED <<cliVars, tokVars, ownership, blobs, blobsAlone, uploads, inserted,
                   pager, usage, wpc, wreq, histVars>>

\* the children lists the index is given in the runs of the HTTP service
ManifestChildLists == {<<>>} \cup {<<c>> : c \in Keys}

\* login, uploads, DAG index entries for uploaded content, and reads
NextDag ==
    \/ \E u \in Users : Login(u)
    \/ \E cred \in TokenIds, k \in Keys :
          CreateTicket(cred, "read", k, NoExpiresIn)
    \/ \E cred \in TokenIds, s \in RequestedScopes, k \in Keys, c \in Contents :
          PutNode(cred, s, k, c, "text/plain")
    \/ \E k \in Keys, ch \in ManifestChildLists :
          /\ blobs[k] # NoBlob
          /\ DagPutNode(k, ch, blobs[k].contentType, Len(blobs[k].content))
    \/ \E cred \in TokenIds, s \in RequestedScopes, k \in Keys : GetNode(cred, s, k)
    \/ \E cred \in TokenIds, s \in RequestedScopes, k \in Keys : GetDag(cred, s, k)

SpecDag == Init /\ [][NextDag]_vars

\* the keys of the nodes whose bytes or metadata a reply reveals
Revealed(reply) ==
    IF reply.status # 200 THEN {}
    ELSE {reply.rKey} \cup {n.key : n \in reply.nodes}

\* C24: every node whose bytes or metadata a 200 reply to GET node or GET
\* dag reveals to a caller of scope S has an ownership record (S, k): the
\* root and each node listed in the DAG manifest
C24_EveryRevealedNodeOwned ==
    \A cred \in TokenIds, s \in RequestedScopes, k \in Keys :
        LET S == resolveScope(authenticate(cred), s)
        IN /\ \A n \in Revealed(getNodeReply(cred, s, k, ownership, blobs)) :
                 hasOwnership(ownership, S, n)
           /\ \A n \in Revealed(getDagReply(cred, s, k, ownership)) :
                 hasOwnership(ownership, S, n)

(***************************************************************************)
(* Revocation and the authorization context.                               *)
(***************************************************************************)
\* the user a stored credential belongs to: the userId of a user or agent
\* token, the userId of a ticket's issuer; NoUser when there is none
OwnerUser(tokenId) ==
    LET token == getToken(tokenId)
    IN IF token = NoRow THEN NoUser
       ELSE IF token.type \in {"user", "agent"} THEN token.userId
       ELSE IF token.type = "ticket" /\ token.issuerId \in TokenIds
       THEN LET issuer == getToken(token.issuerId)
            IN IF issuer # NoRow /\ issuer.type \in {"user", "agent"}
               THEN issuer.userId ELSE NoUser
       ELSE NoUser

\* C25: DELETE /auth/agent-token/:id and DELETE /auth/ticket/:id delete the
\* credential only when the caller is authenticated for a user and the
\* credential belongs to that user; otherwise the request fails (401 or 404)
C25_RevokeOnlyOwnCredentials ==
    \A cred, tokenId \in TokenIds :
        LET auth == authenticate(cred)
            reply == revokeReply(cred, tokenId)
        IN /\ reply.status = 200 =>
                /\ auth.ok
                /\ auth.userId \in Users
                /\ OwnerUser(tokenId) = auth.userId
           /\ reply.status # 200 => reply.status \in {401, 404}

\* the rights of an authorization context
Rights(auth) ==
    [read |-> auth.canRead, write |-> auth.canWrite,
     issueTicket |-> auth.canIssueTicket]

CollectDagKeys(rootKey) ==
    /\ Len(collectDagKeys(dag, rootKey)) > 0
    /\ UNCHANGED vars

\* the DAG index under every sequence of putNode calls, well-formed or not
NextIndex ==
    \/ \E k \in AllKeys, ch \in ChildLists : DagPutNode(k, ch, "text/plain", 1)
    \/ \E k \in AllKeys : CollectDagKeys(k)

SpecIndex == Init /\ [][NextIndex]_vars

RECURSIVE ReachableWithin(_, _, _)
\* the keys that a path of at most n child links leads to from the set
ReachableWithin(index, set, n) ==
    IF n = 0 THEN set
    ELSE ReachableWithin(index,
             set \cup UNION {Range(index[k].children) : k \in set}, n - 1)

\* the keys reachable from rootKey, rootKey included
Reachable(index, rootKey) ==
    ReachableWithin(index, {rootKey}, Cardinality(AllKeys))

\* C27: on every DAG index, whatever its nodes list as children, the loop of
\* collectDagKeys(root) ends after at most 1 + MaxChildren * (number of keys)
\* passes, and its result holds root and every key reachable from root, each
\* exactly once, and no other key
C27_CollectTerminatesEachKeyOnce ==
    \A rootKey \in AllKeys :
        LET run == collectLoop(dag, <<rootKey>>, <<>>, 0)
            keys == collectDagKeys(dag, rootKey)
        IN /\ run.iterations <= 1 + MaxChildren * Cardinality(AllKeys)
           /\ Range(keys) = Reachable(dag, rootKey)
           /\ \A i, j \in 1..Len(keys) : keys[i] = keys[j] => i = j
           /\ keys[1] = rootKey

\* a malformed index: a node lists itself and a child twice, that child
\* lists the node (its ancestor), and the traversal from the node still
\* covers all keys
C27_SelfAndAncestorListed ==
    \E a, b \in AllKeys :
        /\ a # b
        /\ a \in Range(dag[a].children)
        /\ dag[b].children = <<a, a>>
        /\ b \in Range(dag[a].children)
        /\ Len(collectDagKeys(dag, b)) = 2
        /\ \E c \in AllKeys : dag[c].children = <<b, b>>
                               /\ Len(collectDagKeys(dag, c)) = 3

(***************************************************************************)
(* OwnershipDb.checkOwnership over the table's BatchGetItem.               *)
(***************************************************************************)
\* the code's batchSize is 100; the model's batches hold BatchSize keys, so
\* that a list of MaxKeyList keys spans more than one batch
BatchSize == 2
\* the key lists a checkOwnership call can be given
KeyLists == SeqsUpTo(AllKeys, MaxKeyList)

\* BatchGetCommand for the keys (scope, k), k in batch.  The table rejects a
\* request that names the same key twice (ValidationException).  It returns
\* the items that exist, except those of the keys it left unprocessed
\* (UnprocessedKeys, which the caller does not read).
batchGet(table, scope, batch, unprocessed) ==
    LET returned(k) == hasOwnership(table, scope, k) /\ k \notin unprocessed
    IN [error |-> \E i, j \in 1..Len(batch) : i # j /\ batch[i] = batch[j],
        items |-> SelectSeq(batch, returned)]

RECURSIVE batchLoop(_, _, _, _, _)
\* the for loop of OwnershipDb.checkOwnership over keys.slice(i, i + batchSize)
batchLoop(table, scope, keys, unprocessed, found) ==
    IF Len(keys) = 0 THEN [error |-> FALSE, found |-> found]
    ELSE LET n == IF Len(keys) < BatchSize THEN Len(keys) ELSE BatchSize
             result == batchGet(table, scope, SubSeq(keys, 1, n), unprocessed)
         IN IF result.error THEN [error |-> TRUE, found |-> found]
            ELSE batchLoop(table, scope, SubSeq(keys, n + 1, Len(keys)),
                           unprocessed, found \o result.items)

\* OwnershipDb.checkOwnership: found is what the batches returned, missing =
\* keys.filter(key => !foundSet.has(key)); error when a BatchGet threw
checkOwnershipBatchGet(table, scope, keys, unprocessed) ==
    LET run == batchLoop(table, scope, keys, unprocessed, <<>>)
        notFound(k) == k \notin Range(run.found)
    IN IF run.error THEN [error |-> TRUE, found |-> <<>>, missing |-> <<>>]
       ELSE [error |-> FALSE, found |-> run.found,
             missing |-> SelectSeq(keys, notFound)]

\* OwnershipDb.checkOwnership, called on the table
CheckOwnership(scope, keys, unprocessed) ==
    /\ Len(checkOwnership(ownership, scope, keys).found)
         + Len(checkOwnership(ownership, scope, keys).missing) = Len(keys)
    /\ checkOwnershipBatchGet(ownership, scope, keys, unprocessed).error
         \in BOOLEAN
    /\ UNCHANGED vars

\* login, uploads and ownership checks
NextOwn ==
    \/ \E u \in Users : Login(u)
    \/ \E cred \in TokenIds, s \in RequestedScopes, k \in Keys, c \in Contents :
          PutNode(cred, s, k, c, "text/plain")
    \/ \E s \in Scopes, keys \in KeyLists, unprocessed \in SUBSET Keys :
          CheckOwnership(s, keys, unprocessed)

SpecOwn == Init /\ [][NextOwn]_vars

\* result partitions keys: each requested key is in exactly one of found and
\* missing, nothing else is in either, and found holds exactly the requested
\* keys that have an ownership record (scope, key)
PartitionsInput(result, table, scope, keys) ==
    /\ Range(result.found) \cup Range(result.missing) = Range(keys)
    /\ Range(result.found) \cap Range(result.missing) = {}
    /\ Range(result.found) = {k \in Range(keys) : hasOwnership(table, scope, k)}

\* C28: for every list of keys, of one batch or more, of which the scope
\* owns at least one, checkOwnership(scope, keys) returns a partition of the
\* list into found and missing in which found holds exactly the keys with an
\* ownership record (scope, key); this holds for the in-memory table and for
\* the table behind BatchGetItem
C28_CheckOwnershipPartitions ==
    \A s \in Scopes, keys \in KeyLists :
        (\E i \in 1..Len(keys) : hasOwnership(ownership, s, keys[i])) =>
        /\ PartitionsInput(checkOwnership(ownership, s, keys), ownership, s, keys)
        /\ \A unprocessed \in SUBSET Keys :
              LET result == checkOwnershipBatchGet(ownership, s, keys, unprocessed)
              IN ~result.error /\ PartitionsInput(result, ownership, s, keys)

(***************************************************************************)
(* Paging through a scope's keys.                                          *)
(***************************************************************************)
\* allNodes.sort((a, b) => b.createdAt - a.createdAt) is stable: pair goes
\* behind the records that are as new or newer, before the older ones
insertNewestFirst(table, sorted, pair) ==
    LET asNew(p) == table[p].createdAt >= table[pair].createdAt
        older(p) == table[p].createdAt < table[pair].createdAt
    IN SelectSeq(sorted, asNew) \o <<pair>> \o SelectSeq(sorted, older)

RECURSIVE sortNewestFirst(_, _, _)
sortNewestFirst(table, pairs, sorted) ==
    IF Len(pairs) = 0 THEN sorted
    ELSE sortNewestFirst(table, Tail(pairs),
                         insertNewestFirst(table, sorted, Head(pairs)))

\* the least i with seq[i] = x, or 0 (Array.findIndex, counted from 1)
findIndex(seq, x) ==
    IF x \in Range(seq)
    THEN CHOOSE i \in 1..Len(seq) :
            seq[i] = x /\ \A j \in 1..(i - 1) : seq[j] # x
    ELSE 0

\* MemoryOwnershipDb.listNodes: the scope's records in Map order, sorted
\* newest first, the page after the position of startKey
listNodes(table, order, scope, limit, startKey) ==
    LET ofScope(p) == p[1] = scope
        sorted == sortNewestFirst(table, SelectSeq(order, ofScope), <<>>)
        allNodes == [i \in 1..Len(sorted) |-> sorted[i][2]]
        startIndex == IF startKey # NoKey THEN findIndex(allNodes, startKey)
                      ELSE 0
        end == IF startIndex + limit < Len(allNodes)
               THEN startIndex + limit ELSE Len(allNodes)
        nodes == SubSeq(allNodes, startIndex + 1, end)
    IN [nodes |-> nodes,
        nextKey |-> IF Len(nodes) = limit /\ startIndex + limit < Len(allNodes)
                    THEN nodes[Len(nodes)] ELSE NoKey]

\* the table's sort key order: the keys as strings, ascending
KeyOrder == <<"sha256:4bf5", "sha256:dbc1", "sha256:e3b0">>

\* OwnershipDb.listKeys: Query on scope with Limit and ExclusiveStartKey;
\* the items come in sort key order, from behind the start key, and
\* LastEvaluatedKey is the last item read when the query stopped at Limit
listKeys(table, scope, limit, startKey) ==
    LET behind(k) == /\ hasOwnership(table, scope, k)
                     /\ startKey # NoKey =>
                          findIndex(KeyOrder, k) > findIndex(KeyOrder, startKey)
        matching == SelectSeq(KeyOrder, behind)
        keys == IF Len(matching) > limit THEN SubSeq(matching, 1, limit)
                ELSE matching
    IN [nodes |-> keys,
        nextKey |-> IF Len(matching) >= limit THEN keys[limit] ELSE NoKey]

\* one page, from the in-memory table or from the table behind Query
listPage(impl, scope, limit, startKey) ==
    IF impl = "listNodes"
    THEN listNodes(ownership, inserted, scope, limit, startKey)
    ELSE listKeys(ownership, scope, limit, startKey)

\* the pager after it received page
turned(p, page) ==
    [p EXCEPT !.phase = IF page.nextKey = NoKey THEN "done" ELSE "paging",
              !.cursor = page.nextKey,
              !.seen = @ \o page.nodes,
              !.pages = @ + 1]

\* a client asks for the first page of a scope
ListStart(impl, scope, limit) ==
    /\ pager.phase = "idle"
    /\ pager' = turned([NoPager EXCEPT
                            !.impl = impl, !.scope = scope, !.limit = limit,
                            !.stable = {k \in AllKeys :
                                          hasOwnership(ownership, scope, k)}],
                       listPage(impl, scope, limit, NoKey))
    /\ UNCHANGED <<cliVars, tokVars, ownership, blobs, blobsAlone, uploads, dag,
                   inserted, usage, wpc, wreq, histVars>>

\* the client asks for the next page with the cursor it was given
ListNext ==
    /\ pager.phase = "paging"
    /\ pager.pages < MaxPages
    /\ pager' = turned(pager, listPage(pager.impl, pager.scope, pager.limit,
                                       pager.cursor))
    /\ UNCHANGED <<cliVars, tokVars, ownership, blobs, blobsAlone, uploads, dag,
                   inserted, usage, wpc, wreq, histVars>>

\* OwnershipDb.addOwnership, called on the table
AddOwnership(scope, key, createdBy, contentType, size) ==
    /\ ownership' = addOwnership(ownership, scope, key, createdBy, contentType,
                                 size)
    /\ inserted' = mapSet(inserted, <<scope, key>>)
    /\ pager' = touched(pager, scope, key)
    /\ UNCHANGED <<cliVars, tokVars, blobs, blobsAlone, uploads, dag, usage, wpc, wreq,
                   histVars>>

\* OwnershipDb.removeOwnership / deleteOwnership, called on the table
RemoveOwnership(scope, key) ==
    /\ ownership' = removeOwnership(ownership, scope, key)
    /\ inserted' = mapDelete(inserted, <<scope, key>>)
    /\ pager' = touched(pager, scope, key)
    /\ UNCHANGED <<cliVars, tokVars, blobs, blobsAlone, uploads, dag, usage, wpc, wreq,
                   histVars>>

\* the page sizes a client asks for
LimitChoices == {1, 2}

\* one scope's records are written and deleted while a client pages
NextList ==
    \/ Tick
    \/ \E k \in AllKeys : AddOwnership(ScopeOf("u1"), k, 1, "text/plain", 1)
    \/ \E k \in AllKeys : RemoveOwnership(ScopeOf("u1"), k)
    \/ \E impl \in {"listNodes", "listKeys"}, limit \in LimitChoices :
          ListStart(impl, ScopeOf("u1"), limit)
    \/ ListNext

SpecList == Init /\ [][NextList]_vars

\* the number of times key k was returned
Returned(seen, k) == Cardinality({i \in 1..Len(seen) : seen[i] = k})

\* C29: no record that stayed unchanged since the enumeration began is
\* returned twice, and when the last page has come (no cursor returned)
\* every such record was returned exactly once, whatever other requests
\* wrote or deleted between the pages
C29_PagingExactlyOnce ==
    /\ \A k \in pager.stable : Returned(pager.seen, k) <= 1
    /\ pager.phase = "done" =>
          \A k \in pager.stable : Returned(pager.seen, k) = 1

(***************************************************************************)
(* The read scope of a ticket.                                             *)
(***************************************************************************)
\* C30: a request that presents a read ticket minted for key R gets the
\* bytes of R and of every node reachable from R through the DAG index
\* (those its scope owns and the store holds), and is refused every key
\* outside that set
C30_TicketReadsItsDag ==
    \A t \in TokenIds, k \in Keys :
        LET token == getToken(t)
            reply == getNodeReply(t, Me, k, ownership, blobs)
        IN (/\ token # NoRow /\ token.type = "ticket"
            /\ token.ticketType = "read" /\ token.key \in Keys)
           => /\ (/\ k \in Reachable(dag, token.key)
                   /\ hasOwnership(ownership, token.scope, k)
                   /\ blobs[k] # NoBlob)
                  => reply.status = 200 /\ reply.rContent = blobs[k].content
              /\ k \notin Reachable(dag, token.key) => reply.status # 200

(***************************************************************************)
(* Write tickets with a quota or a list of accepted content types.         *)
(***************************************************************************)
\* the write limits a POST /auth/ticket request can ask for
WritableChoices ==
    {[quota |-> 1, accept |-> {}], [quota |-> NoQuota, accept |-> {"image/png"}]}

\* POST /auth/ticket {type: "write", writable: {quota, accept}}:
\* CreateTicketSchema has no `writable` member and z.object drops the members
\* it does not know, so the ticket is created as any write ticket is
CreateWriteTicket(cred, writable, expiresIn) ==
    LET result == createTicketResult(cred, "write", NoKey, expiresIn)
        created == result[2] # NoRow
    IN /\ created => nextId <= MaxTokens
       /\ tokens' = IF created THEN [tokens EXCEPT ![nextId] = result[2]]
                    ELSE tokens
       /\ nextId' = IF created THEN nextId + 1 ELSE nextId
       /\ usage' = IF created
                   THEN [usage EXCEPT ![nextId] =
                            [limited |-> TRUE, quota |-> writable.quota,
                             accept |-> writable.accept, bytes |-> 0]]
                   ELSE usage
       /\ UNCHANGED <<cliVars, now, ownership, blobs, blobsAlone, uploads, dag, inserted,
                      pager, wpc, wreq, histVars>>

\* login, write tickets with limits, uploads
NextQuota ==
    \/ \E u \in Users : Login(u)
    \/ \E cred \in TokenIds, w \in WritableChoices :
          CreateWriteTicket(cred, w, NoExpiresIn)
    \/ \E cred \in TokenIds, s \in RequestedScopes, k \in Keys,
          c \in Contents, ct \in ContentTypes : PutNode(cred, s, k, c, ct)

SpecQuota == Init /\ [][NextQuota]_vars

\* C31: the bytes uploaded with a write ticket issued with a quota never
\* exceed the quota, and no upload made with a ticket issued with a list of
\* accepted content types was stored under a Content-Type outside the list
C31_QuotaAndAcceptEnforced ==
    \A t \in TokenIds :
        usage[t].limited =>
           /\ usage[t].quota # NoQuota => usage[t].bytes <= usage[t].quota
           /\ usage[t].accept # {} =>
                \A p \in OwnershipKeys :
                   ownership[p].createdBy = t
                   => ownership[p].contentType \in usage[t].accept

\* ---------------------------------------------------------------------
\* The MCP portals: registration, build and requests
\* ---------------------------------------------------------------------

srvVars == <<now, tokens, nextId, casVars, wpc, wreq, histVars>>

\* AgentWebPortalBuilder.registerTool: throws when the name is taken
RegisterTool(portal, name) ==
    /\ ~registry[portal].tools[name].registered
    /\ registry' = [registry EXCEPT ![portal].tools[name] = ToolDefs[name]]
    /\ UNCHANGED <<handlerLog, rpcCalls, lastRpc, execVars, flows, hookVars, keyVars, requests, srvVars>>

\* AgentWebPortalBuilder.build(buildOptions)
Build(portal, coerceXmlClientArgs) ==
    /\ ~registry[portal].built
    /\ registry' = [registry EXCEPT
                       ![portal].config = [coerceXmlClientArgs |-> coerceXmlClientArgs],
                       ![portal].built = TRUE]
    /\ UNCHANGED <<handlerLog, rpcCalls, lastRpc, execVars, flows, hookVars, keyVars, requests, srvVars>>

\* tools/call routed to a portal
ToolsCall(portal, name, args, validOutput) ==
    LET outcome == invokeTool(registry[portal], name, args, validOutput)
    IN /\ registry[portal].built
       /\ rpcCalls < MaxCalls
       /\ rpcCalls' = rpcCalls + 1
       /\ handlerLog' =
             IF outcome.called
             THEN handlerLog \cup {[portal |-> portal, name |-> name,
                                    args |-> args, data |-> outcome.data,
                                    coerce |-> registry[portal].config.coerceXmlClientArgs,
                                    reply |-> rpcReply(outcome)]}
             ELSE handlerLog
       /\ lastRpc' = [method |-> "tools/call", portal |-> portal, name |-> name,
                      args |-> args, called |-> outcome.called,
                      reply |-> rpcReply(outcome)]
       /\ UNCHANGED <<registry, execVars, flows, hookVars, keyVars, requests, srvVars>>

\* tools/list routed to a portal
ToolsList(portal) ==
    /\ registry[portal].built
    /\ toMcpToolsList(registry[portal]) # {}
    /\ UNCHANGED vars

NextMcp ==
    \/ \E p \in Portals, n \in ToolNames : RegisterTool(p, n)
    \/ \E p \in Portals, c \in BOOLEAN : Build(p, c)
    \/ \E p \in Portals, n \in ToolNames, a \in ArgChoices, v \in BOOLEAN :
          ToolsCall(p, n, a, v)
    \/ \E p \in Portals : ToolsList(p)

SpecMcp == Init /\ [][NextMcp]_vars

\* C32: a handler has run for a tools/call routed to a portal only for a
\* tool registered on that portal; a tool that is not registered on the
\* portal, also when another portal has it, is answered Tool not found
\* without a handler call, and is absent from the portal's tools/list
C32_PortalIsolation ==
    /\ \A e \in handlerLog : registry[e.portal].tools[e.name].registered
    /\ \A p \in Portals, n \in ToolNames, a \in ArgChoices, v \in BOOLEAN :
          ~registry[p].tools[n].registered
          => /\ toolsCall(p, n, a, v).error = "Tool not found"
             /\ ~invokeTool(registry[p], n, a, v).called
             /\ n \notin toMcpToolsList(registry[p])

C32_OtherPortalsToolAsked ==
    /\ registry["/basic"].built
    /\ registry["/basic"].tools["greet"].registered
    /\ ~registry["/basic"].tools["search_products"].registered
    /\ registry["/ecommerce"].tools["search_products"].registered
    /\ \E e \in handlerLog : e.portal = "/ecommerce" /\ e.name = "search_products"
    /\ lastRpc.method = "tools/call"
    /\ lastRpc.portal = "/basic"
    /\ lastRpc.name = "search_products"
    /\ lastRpc.reply.error = "Tool not found"
    /\ ~lastRpc.called

\* C33 (as stated): every handler call was made for arguments that pass
\* the tool's input schema as they were sent
C33_HandlerOnlyForValidArgs ==
    \A e \in handlerLog :
        safeParse(ToolDefs[e.name].inputSchema, e.args).success

\* C33 (amended): every handler call was made for arguments that pass the
\* tool's input schema as sent or, on a portal built with
\* coerceXmlClientArgs, after their string members were parsed as JSON;
\* arguments that pass neither way get a validation error result (isError)
\* and no handler call
C33_HandlerOnlyForValidOrCoercedArgs ==
    /\ \A e \in handlerLog :
          \/ safeParse(ToolDefs[e.name].inputSchema, e.args).success
          \/ /\ e.coerce
             /\ safeParse(ToolDefs[e.name].inputSchema,
                          coerceStringifiedArgs(e.args)).success
    /\ \A p \in Portals, n \in ToolNames, a \in ArgChoices, v \in BOOLEAN :
          LET schema == ToolDefs[n].inputSchema
              passes == \/ safeParse(schema, a).success
                        \/ /\ registry[p].config.coerceXmlClientArgs
                           /\ safeParse(schema, coerceStringifiedArgs(a)).success
          IN (registry[p].tools[n].registered /\ ~passes)
             => /\ ~invokeTool(registry[p], n, a, v).called
                /\ toolsCall(p, n, a, v).isError
                /\ ~toolsCall(p, n, a, v).handlerResult

C33_InvalidArgsRefused ==
    /\ lastRpc.method = "tools/call"
    /\ registry[lastRpc.portal].tools[lastRpc.name].registered
    /\ lastRpc.name = "greet"
    /\ lastRpc.args = [name |-> Num("123")]
    /\ lastRpc.reply.isError
    /\ ~lastRpc.called
    /\ \E e \in handlerLog : e.coerce /\ e.args = [query |-> Str("test"), limit |-> Str("5")]

\* C34: every ownership record (scope, key) refers to a key whose bytes are
\* in the content store and hash to that key
C34_RecordsReferToStoredBytes ==
    \A p \in OwnershipKeys :
        ownership[p] # NoRecord
        => /\ blobs[p[2]] # NoBlob
           /\ computeHash(blobs[p[2]].content) = p[2]

\* one key is owned, and the only claim to another stored key was deleted
C34_OwnedAndOrphanedBytes ==
    /\ \E p \in OwnershipKeys : ownership[p] # NoRecord
    /\ \E k \in Keys :
          /\ blobs[k] # NoBlob
          /\ \A s \in Scopes : ownership[<<s, k>>] = NoRecord

\* C35: every unexpired ticket is revoked on request by every valid user or
\* agent credential of the user in whose scope it was issued, also when the
\* credential that issued it has expired or been revoked
C35_OwnerCanRevokeTicket ==
    \A cred \in TokenIds, t \in TokenIds :
        LET auth == authenticate(cred)
            ticket == getToken(t)
        IN (/\ ticket # NoRow
            /\ ticket.type = "ticket"
            /\ auth.ok
            /\ auth.userId \in UserIds
            /\ ticket.scope = ScopeOf(auth.userId))
           => revokeReply(cred, t).status = 200

\* ---------------------------------------------------------------------
\* ServerPortal.executeTool
\* ---------------------------------------------------------------------

\* executeTool up to the try block: the context is obtained, or creating
\* the ticket throws, and the BufferedCasClient is created
ExecStart(x, contextOk) ==
    /\ execPc[x] = "idle"
    /\ execPc' = [execPc EXCEPT ![x] = IF contextOk THEN "invoking" ELSE "thrown"]
    /\ execCas' = [execCas EXCEPT ![x] = NewBufferedCasClient]
    /\ UNCHANGED <<invoked, mcpVars, flows, hookVars, keyVars, requests, srvVars>>

\* the tool handler, running inside registry.invoke, writes to its client
HandlerWrite(x, key) ==
    /\ execPc[x] = "invoking"
    /\ key \notin execCas[x].pending
    /\ execCas' = [execCas EXCEPT ![x] = bufferWrite(@, key)]
    /\ UNCHANGED <<execPc, invoked, mcpVars, flows, hookVars, keyVars, requests, srvVars>>

\* registry.invoke returns the result
InvokeReturn(x) ==
    /\ execPc[x] = "invoking"
    /\ invoked' = [invoked EXCEPT ![x] = "returned"]
    /\ execPc' = [execPc EXCEPT ![x] =
                     IF hasPendingWrites(execCas[x]) THEN "committing"
                     ELSE "returned"]
    /\ UNCHANGED <<execCas, mcpVars, flows, hookVars, keyVars, requests, srvVars>>

\* registry.invoke throws: tool not found, invalid input, a handler error
\* or invalid output
InvokeThrow(x) ==
    /\ execPc[x] = "invoking"
    /\ invoked' = [invoked EXCEPT ![x] = "threw"]
    /\ execCas' = [execCas EXCEPT ![x] = catchBlock(@)]
    /\ execPc' = [execPc EXCEPT ![x] = "thrown"]
    /\ UNCHANGED <<mcpVars, flows, hookVars, keyVars, requests, srvVars>>

\* cas.commit() uploads one buffered write
CommitWrite(x, key) ==
    /\ execPc[x] = "committing"
    /\ key \in execCas[x].pending
    /\ execCas' = [execCas EXCEPT ![x] = commitOne(@, key)]
    /\ execPc' = [execPc EXCEPT ![x] =
                     IF execCas[x].pending = {key} THEN "returned" ELSE @]
    /\ UNCHANGED <<invoked, mcpVars, flows, hookVars, keyVars, requests, srvVars>>

\* cas.commit() throws part-way
CommitThrow(x) ==
    /\ execPc[x] = "committing"
    /\ execCas' = [execCas EXCEPT ![x] = catchBlock(@)]
    /\ execPc' = [execPc EXCEPT ![x] = "thrown"]
    /\ UNCHANGED <<invoked, mcpVars, flows, hookVars, keyVars, requests, srvVars>>

NextExec ==
    \/ \E x \in Executions, ok \in BOOLEAN : ExecStart(x, ok)
    \/ \E x \in Executions, k \in Keys : HandlerWrite(x, k)
    \/ \E x \in Executions : InvokeReturn(x)
    \/ \E x \in Executions : InvokeThrow(x)
    \/ \E x \in Executions, k \in Keys : CommitWrite(x, k)
    \/ \E x \in Executions : CommitThrow(x)

SpecExec == Init /\ [][NextExec]_vars

\* C36: a call of executeTool has committed a buffered write only after its
\* tool invocation returned; a call whose invocation threw has no pending
\* write left and has committed none
C36_CommitOnlyAfterSuccess ==
    \A x \in Executions :
        /\ execCas[x].committed # {} => invoked[x] = "returned"
        /\ invoked[x] = "threw"
           => /\ execCas[x].pending = {}
              /\ execCas[x].committed = {}
              /\ execPc[x] = "thrown"

C36_OneCommittedOneDiscarded ==
    /\ invoked["x1"] = "returned"
    /\ execCas["x1"].committed = Keys
    /\ execPc["x1"] = "returned"
    /\ invoked["x2"] = "threw"
    /\ execCas["x2"].buffered = Keys
    /\ execPc["x2"] = "thrown"

\* ---------------------------------------------------------------------
\* startBrowserAuthFlow: the events of one page
\* ---------------------------------------------------------------------

\* startBrowserAuthFlow(options): the window opens or is blocked
StartBrowserAuthFlow(f, blocked) ==
    /\ ~flows[f].started
    /\ flows' = [flows EXCEPT ![f] =
                    [NoFlow EXCEPT !.started = TRUE,
                                   !.window = IF blocked THEN "blocked" ELSE "open",
                                   !.listener = TRUE,
                                   !.watch = ~blocked,
                                   !.timer = blocked]]
    /\ UNCHANGED <<mcpVars, execVars, hookVars, keyVars, requests, srvVars>>

\* a message event {type: "awp-auth-complete", pubkey} reaches the page:
\* every registered handler runs, and calls back when the key is its own
PostMessage(pubkey) ==
    /\ \E f \in Flows : flows[f].listener
    /\ flows' = [f \in Flows |->
                    IF flows[f].listener /\ pubkey = PubkeyOf(f)
                    THEN listenerCallback(flows[f]) ELSE flows[f]]
    /\ UNCHANGED <<mcpVars, execVars, hookVars, keyVars, requests, srvVars>>

\* the user closes the auth window
UserClosesWindow(f) ==
    /\ flows[f].window = "open"
    /\ flows' = [flows EXCEPT ![f].window = "closed"]
    /\ UNCHANGED <<mcpVars, execVars, hookVars, keyVars, requests, srvVars>>

\* the interval of watchWindowClosed finds the window closed
WindowClosedDetected(f) ==
    /\ flows[f].watch
    /\ flows[f].window = "closed"
    /\ flows' = [flows EXCEPT ![f] = watchCallback([@ EXCEPT !.watch = FALSE])]
    /\ UNCHANGED <<mcpVars, execVars, hookVars, keyVars, requests, srvVars>>

\* the setTimeout(callback, 0) of a blocked window fires
BlockedTimeout(f) ==
    /\ flows[f].timer
    /\ flows' = [flows EXCEPT ![f] = watchCallback([@ EXCEPT !.timer = FALSE])]
    /\ UNCHANGED <<mcpVars, execVars, hookVars, keyVars, requests, srvVars>>

\* the caller invokes the returned cleanup()
Cleanup(f) ==
    /\ flows[f].started
    /\ flows' = [flows EXCEPT ![f] = cleanup(@)]
    /\ UNCHANGED <<mcpVars, execVars, hookVars, keyVars, requests, srvVars>>

NextFlow ==
    \/ \E f \in Flows, b \in BOOLEAN : StartBrowserAuthFlow(f, b)
    \/ \E k \in MessagePubkeys : PostMessage(k)
    \/ \E f \in Flows : UserClosesWindow(f)
    \/ \E f \in Flows : WindowClosedDetected(f)
    \/ \E f \in Flows : BlockedTimeout(f)
    \/ \E f \in Flows : Cleanup(f)

SpecFlow == Init /\ [][NextFlow]_vars

\* C37: whatever the order of messages, window-closed detection and
\* cleanup(), a flow has called onAuthorized and onCancelled at most once
\* in total, and has called neither after cleanup() was called
C37_AtMostOneCallback ==
    \A f \in Flows :
        /\ flows[f].authorized + flows[f].cancelled <= 1
        /\ flows[f].afterCleanup = 0

\* one flow was authorized, its window then closed and cleanup() called; the
\* other was cancelled
C37_AuthorizedThenClosedAndCleaned ==
    /\ flows["f1"].authorized = 1
    /\ flows["f1"].window = "closed"
    /\ flows["f1"].cleaned
    /\ flows["f2"].cancelled = 1
    /\ flows["f2"].listener = FALSE

\* ---------------------------------------------------------------------
\* The useAwpAuth hook: its effects, callbacks and the steps they await
\* ---------------------------------------------------------------------

otherCli == <<mcpVars, execVars, flows, keyVars, requests>>

\* the mount effect: checkExistingAuth sets "loading" and awaits the load
MountCheck ==
    /\ hook.mount = "scheduled"
    /\ hook' = [hook EXCEPT !.mount = "loading", !.status = "loading"]
    /\ UNCHANGED <<auths, otherCli, srvVars>>

\* keyStorage.load settles
MountCheckDone ==
    /\ hook.mount = "loading"
    /\ hook' = [hook EXCEPT !.mount = "done",
                            !.status = IF hook.stored # NoStoredKey
                                       THEN "authenticated" ELSE "idle"]
    /\ UNCHANGED <<auths, otherCli, srvVars>>

\* startAuth(): cancels the current flow, sets "loading", and awaits the key
\* pair and the reply of /auth/init
StartAuth(a) ==
    /\ auths[a].pc = "idle"
    /\ auths' = [cancelCurrent(hook, auths) EXCEPT ![a].pc = "init"]
    /\ hook' = [hook EXCEPT !.status = "loading", !.stopped = FALSE,
                            !.savedSinceStop = FALSE]
    /\ UNCHANGED <<otherCli, srvVars>>

\* /auth/init has answered: "pending", the refs are set, the browser flow
\* and the polling start; or the try block throws
InitDone(a, ok) ==
    /\ auths[a].pc = "init"
    /\ auths' = [auths EXCEPT ![a].pc = IF ok THEN "waiting" ELSE "done",
                              ![a].polling = ok]
    /\ hook' = IF ok
               THEN [hook EXCEPT !.status = "pending",
                                 !.abortControllerRef = a, !.cleanupRef = a]
               ELSE [hook EXCEPT !.status = "failed"]
    /\ UNCHANGED <<otherCli, srvVars>>

\* onAuthorized: the flow's postMessage arrived; abort the polling and
\* await handleAuthSuccess
OnAuthorized(a) ==
    /\ auths[a].pc = "waiting"
    /\ ~auths[a].completed
    /\ auths' = [auths EXCEPT ![a].completed = TRUE, ![a].aborted = TRUE,
                              ![a].pc = "saving"]
    /\ UNCHANGED <<hook, otherCli, srvVars>>

\* onCancelled: the user closed the window
OnCancelled(a) ==
    /\ auths[a].pc = "waiting"
    /\ ~auths[a].completed
    /\ auths' = [auths EXCEPT ![a].completed = TRUE]
    /\ hook' = [hook EXCEPT !.status = "polling"]
    /\ UNCHANGED <<otherCli, srvVars>>

\* pollAuthStatus settles: authorized, or timed out, or aborted
PollSettled(a, authorized) ==
    /\ auths[a].pc = "waiting"
    /\ auths[a].polling
    /\ auths' = [auths EXCEPT
                    ![a].polling = FALSE,
                    ![a].completed = @ \/ (authorized /\ ~auths[a].aborted),
                    ![a].pc = IF authorized /\ ~auths[a].aborted
                              THEN "saving" ELSE @]
    /\ hook' = IF ~authorized /\ ~auths[a].aborted
               THEN [hook EXCEPT !.status = "failed"] ELSE hook
    /\ UNCHANGED <<otherCli, srvVars>>

\* handleAuthSuccess: keyStorage.save settles, then "authenticated"
SaveDone(a) ==
    /\ auths[a].pc = "saving"
    /\ auths' = [auths EXCEPT ![a].pc = "done"]
    /\ hook' = [hook EXCEPT !.stored = a, !.status = "authenticated",
                            !.savedSinceStop = hook.stopped]
    /\ UNCHANGED <<otherCli, srvVars>>

\* cancelAuth()
CancelAuth ==
    /\ auths' = cancelCurrent(hook, auths)
    /\ hook' = [hook EXCEPT !.abortControllerRef = NullRef, !.cleanupRef = NullRef,
                            !.status = "cancelled", !.stopped = TRUE,
                            !.savedSinceStop = FALSE]
    /\ UNCHANGED <<otherCli, srvVars>>

\* logout(), up to the await of keyStorage.delete
Logout ==
    /\ hook.logout = "idle"
    /\ auths' = cancelCurrent(hook, auths)
    /\ hook' = [hook EXCEPT !.abortControllerRef = NullRef, !.cleanupRef = NullRef,
                            !.logout = "deleting", !.stopped = TRUE,
                            !.savedSinceStop = FALSE]
    /\ UNCHANGED <<otherCli, srvVars>>

\* keyStorage.delete settles: setAuth(null), "idle"
LogoutDone ==
    /\ hook.logout = "deleting"
    /\ hook' = [hook EXCEPT !.logout = "idle", !.stored = NoStoredKey,
                            !.status = "idle"]
    /\ UNCHANGED <<auths, otherCli, srvVars>>

NextHook ==
    \/ MountCheck
    \/ MountCheckDone
    \/ \E a \in Auths : StartAuth(a)
    \/ \E a \in Auths, ok \in BOOLEAN : InitDone(a, ok)
    \/ \E a \in Auths : OnAuthorized(a)
    \/ \E a \in Auths : OnCancelled(a)
    \/ \E a \in Auths, ok \in BOOLEAN : PollSettled(a, ok)
    \/ \E a \in Auths : SaveDone(a)
    \/ CancelAuth
    \/ Logout
    \/ LogoutDone

SpecHook == Init /\ [][NextHook]_vars

\* C38: once cancelAuth() or logout() has been called and startAuth() not
\* since, the state is not "pending", "polling" or "authenticated" and no
\* key pair has been saved
C38_CancelStopsTheFlow ==
    hook.stopped
    => /\ hook.status \notin {"pending", "polling", "authenticated"}
       /\ ~hook.savedSinceStop

\* ---------------------------------------------------------------------
\* AwpAuth: sign, clearKey and saveKeyPair, one step per await
\* ---------------------------------------------------------------------

keyOthers == <<mcpVars, execVars, flows, hookVars, requests>>

\* sign(endpoint, ...) calls getKeyPair: a cache hit signs at once, a miss
\* asks the storage
SignStart(c, endpoint) ==
    /\ c \in Signers
    /\ calls[c].pc \in {"idle", "done"}
    /\ calls' = [calls EXCEPT ![c] =
          IF cacheHit(cached, endpoint)
          THEN [NoAuthCall EXCEPT !.pc = "done", !.endpoint = endpoint,
                                  !.keyPair = cached.keyPair,
                                  !.afterClear = endpoint \in cleared,
                                  !.result = "signed"]
          ELSE [NoAuthCall EXCEPT !.pc = "load", !.endpoint = endpoint,
                                  !.afterClear = endpoint \in cleared]]
    /\ UNCHANGED <<keyStorage, cached, cleared, keyOthers, srvVars>>

\* keyStorage.load reads the stored key pair
SignLoad(c) ==
    /\ calls[c].pc = "load"
    /\ calls' = [calls EXCEPT ![c].pc = "loaded",
                              ![c].keyPair = keyStorage[calls[c].endpoint]]
    /\ UNCHANGED <<keyStorage, cached, cleared, keyOthers, srvVars>>

\* getKeyPair resumes: null, or the key pair is cached and the request signed
SignFinish(c) ==
    /\ calls[c].pc = "loaded"
    /\ cached' = IF calls[c].keyPair = NoKeyPair THEN cached
                 ELSE [endpoint |-> calls[c].endpoint, keyPair |-> calls[c].keyPair]
    /\ calls' = [calls EXCEPT ![c].pc = "done",
                              ![c].result = IF calls[c].keyPair = NoKeyPair
                                            THEN "NO_KEY" ELSE "signed"]
    /\ UNCHANGED <<keyStorage, cleared, keyOthers, srvVars>>

\* clearKey(endpoint) is called
ClearStart(c, endpoint) ==
    /\ c \in Clearers
    /\ calls[c].pc \in {"idle", "done"}
    /\ calls' = [calls EXCEPT ![c] =
          [NoAuthCall EXCEPT
              !.pc = "delete", !.endpoint = endpoint,
              !.saveSeen = \E v \in Savers : /\ calls[v].pc \in {"save", "saved"}
                                            /\ calls[v].endpoint = endpoint]]
    /\ UNCHANGED <<keyStorage, cached, cleared, keyOthers, srvVars>>

\* keyStorage.delete removes the stored key pair
ClearDelete(c) ==
    /\ calls[c].pc = "delete"
    /\ keyStorage' = [keyStorage EXCEPT ![calls[c].endpoint] = NoKeyPair]
    /\ calls' = [calls EXCEPT ![c].pc = "deleted"]
    /\ UNCHANGED <<cached, cleared, keyOthers, srvVars>>

\* clearKey resumes and completes
ClearFinish(c) ==
    /\ calls[c].pc = "deleted"
    /\ cached' = clearCache(cached, calls[c].endpoint)
    /\ calls' = [calls EXCEPT ![c].pc = "done"]
    /\ cleared' = IF calls[c].saveSeen THEN cleared
                  ELSE cleared \cup {calls[c].endpoint}
    /\ UNCHANGED <<keyStorage, keyOthers, srvVars>>

\* saveKeyPair(endpoint, keyPair) is called with a new key pair
SaveStart(c, endpoint, keyPair) ==
    /\ c \in Savers
    /\ calls[c].pc \in {"idle", "done"}
    /\ calls' = [c2 \in AuthCalls |->
                    IF c2 = c
                    THEN [NoAuthCall EXCEPT !.pc = "save", !.endpoint = endpoint,
                                            !.keyPair = keyPair]
                    ELSE IF calls[c2].endpoint = endpoint
                    THEN [calls[c2] EXCEPT !.afterClear = FALSE,
                                           !.saveSeen = c2 \in Clearers]
                    ELSE calls[c2]]
    /\ cleared' = cleared \ {endpoint}
    /\ UNCHANGED <<keyStorage, cached, keyOthers, srvVars>>

\* keyStorage.save writes the key pair
SaveWrite(c) ==
    /\ calls[c].pc = "save"
    /\ keyStorage' = [keyStorage EXCEPT ![calls[c].endpoint] = calls[c].keyPair]
    /\ calls' = [calls EXCEPT ![c].pc = "saved"]
    /\ UNCHANGED <<cached, cleared, keyOthers, srvVars>>

\* saveKeyPair resumes: the cache is set
SaveFinish(c) ==
    /\ calls[c].pc = "saved"
    /\ cached' = [endpoint |-> calls[c].endpoint, keyPair |-> calls[c].keyPair]
    /\ calls' = [calls EXCEPT ![c].pc = "done"]
    /\ UNCHANGED <<keyStorage, cleared, keyOthers, srvVars>>

NextKey ==
    \/ \E c \in Signers, e \in Endpoints : SignStart(c, e)
    \/ \E c \in Signers : SignLoad(c)
    \/ \E c \in Signers : SignFinish(c)
    \/ \E c \in Clearers, e \in Endpoints : ClearStart(c, e)
    \/ \E c \in Clearers : ClearDelete(c)
    \/ \E c \in Clearers : ClearFinish(c)
    \/ \E c \in Savers, e \in Endpoints, k \in KeyPairs : SaveStart(c, e, k)
    \/ \E c \in Savers : SaveWrite(c)
    \/ \E c \in Savers : SaveFinish(c)

SpecKey == Init /\ [][NextKey]_vars

\* C39: a sign(endpoint, ...) that began after clearKey(endpoint) completed,
\* with no save of a key pair for the endpoint begun since, fails with NO_KEY
C39_SignFailsAfterClearKey ==
    \A c \in Signers :
        (calls[c].afterClear /\ calls[c].result # "none")
        => calls[c].result = "NO_KEY"

\* ---------------------------------------------------------------------
\* AwpClient.sendRequest, one step per await
\* ---------------------------------------------------------------------

reqOthers == <<mcpVars, execVars, flows, hookVars, keyVars>>

\* sendRequest(method, params): the body is built, the headers signed and
\* the first doRequest sent
SendRequest(r, auth) ==
    /\ requests[r].pc = "idle"
    /\ requests' = [requests EXCEPT ![r] =
                       [NoRequest EXCEPT !.pc = "fetch", !.auth = auth,
                                         !.attempts = 1]]
    /\ UNCHANGED <<reqOthers, srvVars>>

\* the first response arrives; challenge: its body has auth_init_endpoint
FirstResponse(r, status, challenge) ==
    /\ requests[r].pc = "fetch"
    /\ requests' = [requests EXCEPT
          ![r].statuses = <<status>>,
          ![r].pc = IF startsAuthFlow(status, requests[r].auth, challenge)
                    THEN "handleUnauthorized" ELSE "done",
          ![r].outcome = IF startsAuthFlow(status, requests[r].auth, challenge)
                         THEN "none"
                         ELSE IF responseOk(status) THEN "result" ELSE "error"]
    /\ UNCHANGED <<reqOthers, srvVars>>

\* auth.handleUnauthorized settles: true (sign and retry), false, or it throws
HandleUnauthorized(r, shouldRetry) ==
    /\ requests[r].pc = "handleUnauthorized"
    /\ requests' = [requests EXCEPT
          ![r].shouldRetry = shouldRetry,
          ![r].pc = IF shouldRetry = "true" THEN "retry" ELSE "done",
          ![r].attempts = IF shouldRetry = "true" THEN @ + 1 ELSE @,
          ![r].outcome = IF shouldRetry = "true" THEN "none" ELSE "error"]
    /\ UNCHANGED <<reqOthers, srvVars>>

\* the response to the retry arrives
RetryResponse(r, status) ==
    /\ requests[r].pc = "retry"
    /\ requests' = [requests EXCEPT
          ![r].statuses = Append(@, status),
          ![r].pc = afterRetry(status),
          ![r].outcome = IF afterRetry(status) # "done" THEN "none"
                         ELSE IF responseOk(status) THEN "result" ELSE "error"]
    /\ UNCHANGED <<reqOthers, srvVars>>

NextRequest ==
    \/ \E r \in Requests, a \in BOOLEAN : SendRequest(r, a)
    \/ \E r \in Requests, st \in Statuses, ch \in BOOLEAN : FirstResponse(r, st, ch)
    \/ \E r \in Requests, res \in {"true", "false", "threw"} :
          HandleUnauthorized(r, res)
    \/ \E r \in Requests, st \in Statuses : RetryResponse(r, st)

SpecRequest == Init /\ [][NextRequest]_vars

\* C40: a call of sendRequest makes at most two HTTP attempts; it makes the
\* second only after a 401 for which handleUnauthorized returned true, and
\* then makes it exactly once; a 401 to the second attempt ends the call with
\* an error
C40_AtMostOneRetry ==
    \A r \in Requests :
        LET q == requests[r]
        IN /\ q.attempts <= 2
           /\ q.attempts = 2 => (q.statuses[1] = 401 /\ q.shouldRetry = "true")
           /\ (q.shouldRetry = "true") => q.attempts = 2
           /\ (q.pc = "done" /\ Len(q.statuses) = 2 /\ q.statuses[2] = 401)
              => q.outcome = "error"
           /\ q.pc = "done" => Len(q.statuses) = q.attempts

\* one call ended with an error after a second 401, another was retried
\* once and got its result
C40_Second401AndRetriedSuccess ==
    /\ requests["r1"].pc = "done"
    /\ requests["r1"].statuses = <<401, 401>>
    /\ requests["r1"].outcome = "error"
    /\ requests["r2"].pc = "done"
    /\ requests["r2"].statuses = <<401, 200>>
    /\ requests["r2"].outcome = "result"
====
